---- MODULE Spec2Model ----
(***************************************************************************)
(* Model of the social interaction graph engine of QQChatAnalyzer          *)
(* (src/src/network_analyzer.py): NetworkAnalyzer.load_messages, analyze   *)
(* and the passes analyze runs.                                            *)
(*                                                                         *)
(* Numbers.  The engine works on Python floats; the model keeps the same   *)
(* quantities as exact integers or fractions:                              *)
(*   - a conversation score is held in hundredths (0.6 is 60);             *)
(*   - a Jaccard similarity n/d is held as n * SimScale \div d, where      *)
(*     SimScale is a common multiple of every possible denominator;        *)
(*   - an aggregated weight is held in units of 1/(1000 * SimScale);       *)
(*   - a centrality or a metric is held as a fraction [n |-> _, d |-> _].  *)
(* Times are whole minutes.  A message's time field is the code of a       *)
(* time string: 0 is the empty string, t > 0 is the well-formed string     *)
(* "YYYY-MM-DD HH:MM:SS" of minute t.                                      *)
(***************************************************************************)
EXTENDS Integers, Sequences, FiniteSets, TLC

(***************************************************************************)
(* Sender ids, in the order Python compares the strings.                   *)
(***************************************************************************)
UserIds == <<"a", "b", "c">>

Users == {UserIds[i] : i \in 1..Len(UserIds)}

\* ids for graphs wider than the senders above, two of them with '_'
GraphIds == <<"a", "a_b", "b", "b_c", "c">>

IdRank(u) == IF u = "" THEN 0 ELSE CHOOSE i \in 1..Len(GraphIds) : GraphIds[i] = u

IdLess(u, v) == IdRank(u) < IdRank(v)

\* tuple(sorted([qq1, qq2]))
SortedPair(qq1, qq2) == IF IdLess(qq2, qq1) THEN <<qq2, qq1>> ELSE <<qq1, qq2>>

NameOf(qq) == "N_" \o qq

(***************************************************************************)
(* Words of message contents.  A content is a sequence of words joined by  *)
(* single blanks.  CleanWord is re.sub(r'[^\w\s]', '', w) on one word and  *)
(* WordLen is len(w).                                                      *)
(***************************************************************************)
MentionWords == {"@" \o u : u \in Users}

PlainWords ==
    {"tea", "cake", "milk", "k", "rice", "soup", "corn", "plum", "pear", "lime", "kiwi"}

Words == PlainWords \cup MentionWords

CleanWord(w) == IF w \in MentionWords THEN CHOOSE u \in Users : w = "@" \o u ELSE w

WordLen(w) ==
    IF w \in MentionWords THEN 2
    ELSE IF w \in Users \/ w = "k" THEN 1
    ELSE IF w = "tea" THEN 3
    ELSE 4

RECURSIVE SumLen(_)
SumLen(content) ==
    IF content = <<>> THEN 0 ELSE WordLen(Head(content)) + SumLen(Tail(content))

\* len(content.strip())
ContentLen(content) ==
    IF content = <<>> THEN 0 ELSE SumLen(content) + Len(content) - 1

\* f'@{qq}' in content
LegacyMention(content, qq) ==
    \E k \in 1..Len(content) : content[k] = "@" \o qq

\* set(re.sub(r'[^\w\s]', '', content).split())
CleanWords(content) == {CleanWord(content[k]) : k \in 1..Len(content)}

\* _tokenize / _tokenize_static: the cleaned words longer than one character
tokenize(content) == {w \in CleanWords(content) : WordLen(w) > 1}

(***************************************************************************)
(* Time strings.                                                           *)
(***************************************************************************)
\* A time string is held as a number: 0 is the empty string, Malformed a
\* string such as 'yesterday' that no format matches, and any other number
\* the minute of a well-formed string '2025-05-10 10:MM:00'.
None == -1

Malformed == 1000

\* a faulty variant of the parser below that takes every string for a time
parse_timestamp_of_anything(t) == t

\* utils.parse_timestamp: None for the empty string and for a string that no
\* format matches, else the minute
parse_timestamp(t) == IF t = 0 \/ t = Malformed THEN None ELSE t

\* the order of str(m.get('time', '') or '') as Python compares strings: the
\* empty string first, the well-formed strings by minute, 'yesterday' last
TimeStrRank(t) == t

(***************************************************************************)
(* sorted(): a stable sort.  keys maps the indices of a list to pairs      *)
(* <<k1, k2>> compared lexicographically; the result lists the indices.    *)
(***************************************************************************)
KeyLess(k1, k2) == k1[1] < k2[1] \/ (k1[1] = k2[1] /\ k1[2] < k2[2])

RECURSIVE StableOrder(_, _)
StableOrder(idx, keys) ==
    IF idx = {} THEN <<>>
    ELSE LET i == CHOOSE i \in idx : \A j \in idx \ {i} :
                      KeyLess(keys[i], keys[j])
                      \/ (~KeyLess(keys[j], keys[i]) /\ i < j)
         IN  <<i>> \o StableOrder(idx \ {i}, keys)

SortedBy(seq, keys) ==
    LET ord == StableOrder(DOMAIN seq, keys)
    IN  [k \in 1..Len(seq) |-> seq[ord[k]]]

Min(a, b) == IF a < b THEN a ELSE b

(***************************************************************************)
(* Insertion-ordered maps from keys to numbers (Python dicts), held as     *)
(* sequences of entries [k |-> key, v |-> value].                          *)
(***************************************************************************)
MapKeys(map) == {map[i].k : i \in 1..Len(map)}

MapGet(map, key, default) ==
    IF key \in MapKeys(map)
    THEN map[CHOOSE i \in 1..Len(map) : map[i].k = key].v
    ELSE default

\* map[key] += v on a defaultdict(float): the first addition appends the key
MapAdd(map, key, v) ==
    IF key \in MapKeys(map)
    THEN [i \in 1..Len(map) |->
            IF map[i].k = key THEN [k |-> key, v |-> map[i].v + v] ELSE map[i]]
    ELSE Append(map, [k |-> key, v |-> v])

\* {k: v for k, v in map.items() if v >= floor}
RECURSIVE MapFloor(_, _)
MapFloor(map, floor) ==
    IF map = <<>> THEN <<>>
    ELSE IF Head(map).v >= floor
         THEN <<Head(map)>> \o MapFloor(Tail(map), floor)
         ELSE MapFloor(Tail(map), floor)

(***************************************************************************)
(* Construction-time configuration (NetworkAnalyzer.__init__).             *)
(***************************************************************************)
ConversationWindow == 30

MaxLookahead == 50

DefaultMaxNodes == 100

DefaultMaxEdges == 300

\* max_x if isinstance(max_x, int) and max_x > 0 else default
CapOrDefault(arg, default) == IF arg > 0 THEN arg ELSE default

(***************************************************************************)
(* load_messages                                                           *)
(***************************************************************************)
\* _sort_key
sort_key(m) ==
    IF m.timestamp_ms > 0 THEN <<0, m.timestamp_ms>> ELSE <<1, TimeStrRank(m.time)>>

SortMessages(msgs) == SortedBy(msgs, [i \in DOMAIN msgs |-> sort_key(msgs[i])])

RECURSIVE FilterSeq(_, _)
FilterSeq(seq, keep) ==
    IF seq = <<>> THEN <<>>
    ELSE IF Head(seq).qq \in keep
         THEN <<Head(seq)>> \o FilterSeq(Tail(seq), keep)
         ELSE FilterSeq(Tail(seq), keep)

\* user_counts: the senders with a non-empty id, in order of first message
RECURSIVE CountUsers(_, _)
CountUsers(msgs, acc) ==
    IF msgs = <<>> THEN acc
    ELSE CountUsers(Tail(msgs),
                    IF Head(msgs).qq # "" THEN MapAdd(acc, Head(msgs).qq, 1) ELSE acc)

\* the Top-N senders by message count (sorted(..., reverse=True)[:limit_n])
TopUsers(msgs, limit_n) ==
    LET counts == CountUsers(msgs, <<>>)
        ranked == SortedBy(counts, [i \in DOMAIN counts |-> <<0, 0 - counts[i].v>>])
    IN  {ranked[i].k : i \in 1..Min(limit_n, Len(ranked))}

LoadedMessages(msgs, limit, max_nodes) ==
    LET sorted == SortMessages(msgs)
    IN  IF limit THEN FilterSeq(sorted, TopUsers(sorted, max_nodes)) ELSE sorted

\* the QQ -> nickname map: a sender's first name wins and is never replaced
RECURSIVE AddNames(_, _)
AddNames(msgs, names) ==
    IF msgs = <<>> THEN names
    ELSE LET m == Head(msgs)
         IN  AddNames(Tail(msgs),
                      IF ~m.is_system /\ m.qq # "" /\ m.sender # ""
                         /\ m.qq \notin MapKeys(names)
                      THEN Append(names, [k |-> m.qq, v |-> m.sender])
                      ELSE names)

\* self.qq_to_name.get(qq, qq)
DisplayName(names, qq) == MapGet(names, qq, qq)

(***************************************************************************)
(* Conversation inference.                                                 *)
(***************************************************************************)
\* _messages_related: Jaccard overlap of the cleaned word sets above 0.2
messages_related(content1, content2) ==
    LET words1 == CleanWords(content1)
        words2 == CleanWords(content2)
    IN  /\ words1 # {}
        /\ words2 # {}
        /\ 10 * Cardinality(words1 \cap words2) > 2 * Cardinality(words1 \cup words2)

\* a faulty variant of the score below that is not capped at 1.0
calculate_conversation_score_uncapped(msg1, msg2, time_diff) ==
    LET timeScore ==
            IF time_diff <= 5 THEN 60
            ELSE IF time_diff <= 15 THEN 40
            ELSE IF time_diff <= 30 THEN 20
            ELSE IF time_diff <= ConversationWindow THEN 10
            ELSE 0
        mentionScore ==
            IF msg2.qq # "" /\ msg2.qq \in msg1.mentions THEN 55
            ELSE IF msg1.qq # "" /\ msg1.qq \in msg2.mentions THEN 55
            ELSE IF \/ (msg2.qq # "" /\ LegacyMention(msg1.content, msg2.qq))
                    \/ (msg1.qq # "" /\ LegacyMention(msg2.content, msg1.qq))
                 THEN 35
                 ELSE 0
        replyScore ==
            IF msg2.reply_to_qq # "" /\ msg2.reply_to_qq = msg1.qq THEN 60
            ELSE IF msg1.reply_to_qq # "" /\ msg1.reply_to_qq = msg2.qq THEN 60
            ELSE 0
        relatedScore == IF messages_related(msg1.content, msg2.content) THEN 20 ELSE 0
        baseScore == IF time_diff <= ConversationWindow THEN 10 ELSE 0
    IN  timeScore + mentionScore + replyScore + relatedScore + baseScore

\* _calculate_conversation_score, in hundredths
calculate_conversation_score(msg1, msg2, time_diff) ==
    LET timeScore ==
            IF time_diff <= 5 THEN 60
            ELSE IF time_diff <= 15 THEN 40
            ELSE IF time_diff <= 30 THEN 20
            ELSE IF time_diff <= ConversationWindow THEN 10
            ELSE 0
        mentionScore ==
            IF msg2.qq # "" /\ msg2.qq \in msg1.mentions THEN 55
            ELSE IF msg1.qq # "" /\ msg1.qq \in msg2.mentions THEN 55
            ELSE IF \/ (msg2.qq # "" /\ LegacyMention(msg1.content, msg2.qq))
                    \/ (msg1.qq # "" /\ LegacyMention(msg2.content, msg1.qq))
                 THEN 35
                 ELSE 0
        replyScore ==
            IF msg2.reply_to_qq # "" /\ msg2.reply_to_qq = msg1.qq THEN 60
            ELSE IF msg1.reply_to_qq # "" /\ msg1.reply_to_qq = msg2.qq THEN 60
            ELSE 0
        relatedScore == IF messages_related(msg1.content, msg2.content) THEN 20 ELSE 0
        baseScore == IF time_diff <= ConversationWindow THEN 10 ELSE 0
    IN  Min(timeScore + mentionScore + replyScore + relatedScore + baseScore, 100)

\* the inner loop of _extract_conversations over the messages after msgs[i]
RECURSIVE ScanPartners(_, _, _, _, _)
ScanPartners(msgs, i, j, hi, acc) ==
    IF j > hi THEN acc
    ELSE LET msg1 == msgs[i]
             msg2 == msgs[j]
             time2 == parse_timestamp(msg2.time)
             time_diff == time2 - parse_timestamp(msg1.time)
         IN  IF msg2.is_system \/ msg2.is_recalled
             THEN ScanPartners(msgs, i, j + 1, hi, acc)
             ELSE IF time2 = None \/ msg2.qq = "" \/ msg1.qq = msg2.qq
             THEN ScanPartners(msgs, i, j + 1, hi, acc)
             ELSE IF time_diff > ConversationWindow
             THEN acc
             ELSE LET score == calculate_conversation_score(msg1, msg2, time_diff)
                  IN  ScanPartners(msgs, i, j + 1, hi,
                                   IF score > 0
                                   THEN MapAdd(acc, SortedPair(msg1.qq, msg2.qq), score)
                                   ELSE acc)

\* the outer loop of _extract_conversations
RECURSIVE ScanMessages(_, _, _)
ScanMessages(msgs, i, acc) ==
    IF i > Len(msgs) THEN acc
    ELSE LET msg1 == msgs[i]
             max_lookahead == Min(MaxLookahead, Len(msgs) - i)
         IN  IF msg1.is_system \/ msg1.is_recalled
                \/ parse_timestamp(msg1.time) = None \/ msg1.qq = ""
             THEN ScanMessages(msgs, i + 1, acc)
             ELSE ScanMessages(msgs, i + 1,
                               ScanPartners(msgs, i, i + 1,
                                            Min(i + max_lookahead, Len(msgs)), acc))

extract_conversations(msgs) == ScanMessages(msgs, 1, <<>>)

(***************************************************************************)
(* Content similarity.                                                     *)
(***************************************************************************)
TokenVocabulary == UNION {tokenize(<<w>>) : w \in Words}

\* the least common multiple of 1..n
RECURSIVE CommonMultiple(_)
CommonMultiple(n) ==
    IF n <= 1 THEN 1
    ELSE LET m == CommonMultiple(n - 1)
         IN  m * (CHOOSE j \in 1..n :
                      /\ (m * j) % n = 0
                      /\ \A i \in 1..(j - 1) : (m * i) % n # 0)

\* a common multiple of every Jaccard denominator
SimScale == CommonMultiple(Cardinality(TokenVocabulary))

SimilarityThresholdPct == 10

ParallelPairThreshold == 100

\* similarity > self.similarity_threshold
AboveThreshold(similarity) == 100 * similarity > SimilarityThresholdPct * SimScale

\* user_contents[qq].append(content) on a defaultdict(list)
ListAppend(map, key, item) ==
    IF key \in MapKeys(map)
    THEN [i \in 1..Len(map) |->
            IF map[i].k = key THEN [k |-> key, v |-> Append(map[i].v, item)] ELSE map[i]]
    ELSE Append(map, [k |-> key, v |-> <<item>>])

\* the collection loop of _analyze_content_similarity
RECURSIVE CollectContents(_, _)
CollectContents(msgs, acc) ==
    IF msgs = <<>> THEN acc
    ELSE LET m == Head(msgs)
         IN  CollectContents(Tail(msgs),
                 IF ~(m.is_system \/ m.is_recalled)
                    /\ m.qq # "" /\ m.content # <<>> /\ ContentLen(m.content) > 2
                 THEN ListAppend(acc, m.qq, m.content)
                 ELSE acc)

user_contents_of(msgs) == CollectContents(msgs, <<>>)

\* list(combinations(keys, 2)): pairs of positions i < j in lexicographic order
RECURSIVE Combinations(_, _, _)
Combinations(keys, i, j) ==
    IF i >= Len(keys) THEN <<>>
    ELSE IF j > Len(keys) THEN Combinations(keys, i + 1, i + 2)
    ELSE <<(<<keys[i], keys[j]>>)>> \o Combinations(keys, i, j + 1)

user_pairs_of(user_contents) ==
    Combinations([i \in 1..Len(user_contents) |-> user_contents[i].k], 1, 2)

WordsOf(contents) == UNION {tokenize(contents[i]) : i \in 1..Len(contents)}

\* _calculate_user_similarity_simple: the Jaccard similarity of the token sets
calculate_user_similarity_simple(contents1, contents2) ==
    LET words1 == WordsOf(contents1)
        words2 == WordsOf(contents2)
    IN  IF words1 = {} \/ words2 = {} THEN 0
        ELSE (Cardinality(words1 \cap words2) * SimScale)
                 \div Cardinality(words1 \cup words2)

\* similarities[pair] = similarity on a plain dict
MapPut(map, key, v) ==
    IF key \in MapKeys(map)
    THEN [i \in 1..Len(map) |-> IF map[i].k = key THEN [k |-> key, v |-> v] ELSE map[i]]
    ELSE Append(map, [k |-> key, v |-> v])

\* _analyze_similarity_sequential
RECURSIVE SequentialLoop(_, _, _)
SequentialLoop(user_contents, user_pairs, acc) ==
    IF user_pairs = <<>> THEN acc
    ELSE LET qq1 == Head(user_pairs)[1]
             qq2 == Head(user_pairs)[2]
             contents1 == MapGet(user_contents, qq1, <<>>)
             contents2 == MapGet(user_contents, qq2, <<>>)
             similarity == calculate_user_similarity_simple(contents1, contents2)
         IN  SequentialLoop(user_contents, Tail(user_pairs),
                 IF Len(contents1) >= 2 /\ Len(contents2) >= 2 /\ AboveThreshold(similarity)
                 THEN MapPut(acc, SortedPair(qq1, qq2), similarity)
                 ELSE acc)

analyze_similarity_sequential(user_contents, user_pairs) ==
    SequentialLoop(user_contents, user_pairs, <<>>)

\* _calc_pair_similarity: the worker's (pair, similarity), the pair as it was given
calc_pair_similarity(pair, user_contents) ==
    LET contents1 == MapGet(user_contents, pair[1], <<>>)
        contents2 == MapGet(user_contents, pair[2], <<>>)
        words1 == WordsOf(contents1)
        words2 == WordsOf(contents2)
    IN  IF Len(contents1) < 2 \/ Len(contents2) < 2 THEN <<pair, 0>>
        ELSE IF words1 = {} \/ words2 = {} THEN <<pair, 0>>
        ELSE <<pair, (Cardinality(words1 \cap words2) * SimScale)
                        \div Cardinality(words1 \cup words2)>>

\* the merge loop of _analyze_similarity_parallel over pool.map's results
RECURSIVE MergeResults(_, _)
MergeResults(results, acc) ==
    IF results = <<>> THEN acc
    ELSE MergeResults(Tail(results),
             IF AboveThreshold(Head(results)[2])
             THEN MapPut(acc, Head(results)[1], Head(results)[2])
             ELSE acc)

\* a faulty variant of the function below that gives up when the pool raises:
\* with it C7 fails
analyze_similarity_parallel_no_fallback(user_contents, user_pairs, pool_fails) ==
    IF pool_fails
    THEN <<>>
    ELSE MergeResults([i \in 1..Len(user_pairs) |->
                          calc_pair_similarity(user_pairs[i], user_contents)], <<>>)

\* _analyze_similarity_parallel; pool_fails: the process pool raises an exception
analyze_similarity_parallel(user_contents, user_pairs, pool_fails) ==
    IF pool_fails
    THEN analyze_similarity_sequential(user_contents, user_pairs)
    ELSE MergeResults([i \in 1..Len(user_pairs) |->
                          calc_pair_similarity(user_pairs[i], user_contents)], <<>>)

\* _analyze_content_similarity
analyze_content_similarity(msgs, parallel, pool_fails) ==
    LET user_contents == user_contents_of(msgs)
        user_pairs == user_pairs_of(user_contents)
    IN  IF parallel /\ Len(user_pairs) > ParallelPairThreshold
        THEN analyze_similarity_parallel(user_contents, user_pairs, pool_fails)
        ELSE analyze_similarity_sequential(user_contents, user_pairs)

(***************************************************************************)
(* Interaction weights, in units of 1/WeightUnit.                          *)
(***************************************************************************)
WeightUnit == 1000 * SimScale

MinInteractions == 1

MinEdgeWeightMilli == 200

RECURSIVE AddScaled(_, _, _)
AddScaled(weights, map, factor) ==
    IF map = <<>> THEN weights
    ELSE AddScaled(MapAdd(weights, Head(map).k, Head(map).v * factor), Tail(map), factor)

\* a faulty variant of the function below that weighs both terms by 0.5
calculate_interaction_weights_evenly(conversations, content_similarities) ==
    LET conv == AddScaled(<<>>, conversations, 5 * SimScale)
        both == AddScaled(conv, content_similarities, 500)
    IN  MapFloor(both, MinInteractions * WeightUnit)

\* _calculate_interaction_weights: 0.7 * conversation + 0.3 * similarity,
\* then the min_interactions floor
calculate_interaction_weights(conversations, content_similarities) ==
    LET conv == AddScaled(<<>>, conversations, 7 * SimScale)
        both == AddScaled(conv, content_similarities, 300)
    IN  MapFloor(both, MinInteractions * WeightUnit)

(***************************************************************************)
(* Graph construction and pruning (_construct_network_graph).              *)
(***************************************************************************)
Endpoints(map) == UNION {{map[i].k[1], map[i].k[2]} : i \in 1..Len(map)}

\* node_degrees: the number of edges at each endpoint, in order of first use
RECURSIVE NodeDegrees(_, _)
NodeDegrees(map, acc) ==
    IF map = <<>> THEN acc
    ELSE NodeDegrees(Tail(map),
                     MapAdd(MapAdd(acc, Head(map).k[1], 1), Head(map).k[2], 1))

\* the edges with both endpoints in keep
RECURSIVE EdgesWithin(_, _)
EdgesWithin(map, keep) ==
    IF map = <<>> THEN <<>>
    ELSE IF Head(map).k[1] \in keep /\ Head(map).k[2] \in keep
         THEN <<Head(map)>> \o EdgesWithin(Tail(map), keep)
         ELSE EdgesWithin(Tail(map), keep)

\* a faulty variant of the slice below that keeps every entry: with it the
\* caps of C6 are exceeded
TopByValueUnsliced(map, limit) ==
    SortedBy(map, [i \in DOMAIN map |-> <<0, 0 - map[i].v>>])

\* a faulty variant of the function below that sorts without reverse=True and
\* so keeps the entries of the lowest values
TopByValueLowest(map, limit) ==
    LET ranked == SortedBy(map, [i \in DOMAIN map |-> <<0, map[i].v>>])
    IN  SubSeq(ranked, 1, Min(limit, Len(ranked)))

\* sorted(map.items(), key=lambda x: x[1], reverse=True)[:limit]
TopByValue(map, limit) ==
    LET ranked == SortedBy(map, [i \in DOMAIN map |-> <<0, 0 - map[i].v>>])
    IN  SubSeq(ranked, 1, Min(limit, Len(ranked)))

\* sorted(filtered_users)
SortedIds(ids) ==
    LET seq == CHOOSE q \in [1..Cardinality(ids) -> ids] :
                   \A i, j \in 1..Cardinality(ids) : i < j => IdLess(q[i], q[j])
    IN  seq

\* a faulty variant of the pruning below whose edge cap already bites at
\* max_edges edges and keeps one edge less
PrunedGraphCappingEarly(interaction_weights, max_nodes, max_edges) ==
    LET floored == MapFloor(interaction_weights, MinEdgeWeightMilli * SimScale)
        users1 == Endpoints(floored)
        nodeCap == Cardinality(users1) > max_nodes
        top_user_set ==
            LET top_users == TopByValue(NodeDegrees(floored, <<>>), max_nodes)
            IN  {top_users[i].k : i \in 1..Len(top_users)}
        weights2 == IF nodeCap THEN EdgesWithin(floored, top_user_set) ELSE floored
        users2 == IF nodeCap THEN top_user_set ELSE users1
        edgeCap == Len(weights2) >= max_edges
        weights3 == IF edgeCap THEN TopByValue(weights2, max_edges - 1) ELSE weights2
        users3 == IF edgeCap THEN Endpoints(weights3) ELSE users2
    IN  [weights |-> weights3, users |-> users3]

\* a faulty variant of the pruning below whose edge cap leaves the node set
\* of the node cap as it is
PrunedGraphKeepingNodes(interaction_weights, max_nodes, max_edges) ==
    LET floored == MapFloor(interaction_weights, MinEdgeWeightMilli * SimScale)
        users1 == Endpoints(floored)
        nodeCap == Cardinality(users1) > max_nodes
        top_user_set ==
            LET top_users == TopByValue(NodeDegrees(floored, <<>>), max_nodes)
            IN  {top_users[i].k : i \in 1..Len(top_users)}
        weights2 == IF nodeCap THEN EdgesWithin(floored, top_user_set) ELSE floored
        users2 == IF nodeCap THEN top_user_set ELSE users1
        edgeCap == Len(weights2) > max_edges
        weights3 == IF edgeCap THEN TopByValue(weights2, max_edges) ELSE weights2
    IN  [weights |-> weights3, users |-> users2]

\* steps 1 to 4: the surviving weight map and the surviving users
PrunedGraph(interaction_weights, max_nodes, max_edges) ==
    LET floored == MapFloor(interaction_weights, MinEdgeWeightMilli * SimScale)
        users1 == Endpoints(floored)
        nodeCap == Cardinality(users1) > max_nodes
        top_user_set ==
            LET top_users == TopByValue(NodeDegrees(floored, <<>>), max_nodes)
            IN  {top_users[i].k : i \in 1..Len(top_users)}
        weights2 == IF nodeCap THEN EdgesWithin(floored, top_user_set) ELSE floored
        users2 == IF nodeCap THEN top_user_set ELSE users1
        edgeCap == Len(weights2) > max_edges
        weights3 == IF edgeCap THEN TopByValue(weights2, max_edges) ELSE weights2
        users3 == IF edgeCap THEN Endpoints(weights3) ELSE users2
    IN  [weights |-> weights3, users |-> users3]

One == [n |-> 1, d |-> 1]

\* the interaction matrix: pair[0] + '_' + pair[1] -> weight
RECURSIVE MatrixOf(_, _)
MatrixOf(map, acc) ==
    IF map = <<>> THEN acc
    ELSE MatrixOf(Tail(map),
                  MapPut(acc, Head(map).k[1] \o "_" \o Head(map).k[2], Head(map).v))

\* a faulty variant of the function below that adds to the counts of the
\* analysis before instead of replacing them: with it C8 fails
construct_network_graph_accumulating(st, interaction_weights, max_nodes, max_edges, names) ==
    [st EXCEPT
        !.original_nodes_count = @ + Cardinality(Endpoints(interaction_weights)),
        !.original_edges_count = @ + Len(interaction_weights)]

\* a faulty variant of the function below that does not record the original
\* counts: with it a first analysis shows more nodes than original nodes
construct_network_graph_uncounted(st, interaction_weights, max_nodes, max_edges, names) ==
    LET g == PrunedGraph(interaction_weights, max_nodes, max_edges)
        ids == SortedIds(g.users)
    IN  [st EXCEPT
            !.total_nodes = Cardinality(g.users),
            !.nodes = [i \in 1..Len(ids) |->
                          [id |-> ids[i], label |-> DisplayName(names, ids[i]),
                           value |-> One]],
            !.edges = [i \in 1..Len(g.weights) |->
                          [from |-> g.weights[i].k[1], to |-> g.weights[i].k[2],
                           from_name |-> DisplayName(names, g.weights[i].k[1]),
                           to_name |-> DisplayName(names, g.weights[i].k[2]),
                           value |-> g.weights[i].v]],
            !.total_edges = Len(g.weights),
            !.interaction_matrix = MatrixOf(g.weights, <<>>)]

\* _construct_network_graph: the fields of NetworkStats it assigns
construct_network_graph(st, interaction_weights, max_nodes, max_edges, names) ==
    LET g == PrunedGraph(interaction_weights, max_nodes, max_edges)
        ids == SortedIds(g.users)
    IN  [st EXCEPT
            !.original_nodes_count = Cardinality(Endpoints(interaction_weights)),
            !.original_edges_count = Len(interaction_weights),
            !.total_nodes = Cardinality(g.users),
            !.nodes = [i \in 1..Len(ids) |->
                          [id |-> ids[i], label |-> DisplayName(names, ids[i]),
                           value |-> One]],
            !.edges = [i \in 1..Len(g.weights) |->
                          [from |-> g.weights[i].k[1], to |-> g.weights[i].k[2],
                           from_name |-> DisplayName(names, g.weights[i].k[1]),
                           to_name |-> DisplayName(names, g.weights[i].k[2]),
                           value |-> g.weights[i].v]],
            !.total_edges = Len(g.weights),
            !.interaction_matrix = MatrixOf(g.weights, <<>>)]

\* _build_interaction_graph
build_interaction_graph(st, msgs, cfg, names, pool_fails) ==
    LET conversations == extract_conversations(msgs)
        content_similarities ==
            analyze_content_similarity(msgs, cfg.enable_parallel, pool_fails)
        interaction_weights ==
            calculate_interaction_weights(conversations, content_similarities)
    IN  construct_network_graph(st, interaction_weights, cfg.max_nodes_for_viz,
                                cfg.max_edges_for_viz, names)

(***************************************************************************)
(* Fractions: [n |-> numerator, d |-> denominator > 0], kept in lowest     *)
(* terms so that equal values are equal records.                           *)
(***************************************************************************)
RECURSIVE GCD(_, _)
GCD(a, b) == IF b = 0 THEN a ELSE GCD(b, a % b)

Frac(n, d) == LET g == GCD(n, d) IN [n |-> n \div g, d |-> d \div g]

Zero == [n |-> 0, d |-> 1]

FAdd(x, y) == Frac(x.n * y.d + y.n * x.d, x.d * y.d)

FMul(x, y) == Frac(x.n * y.n, x.d * y.d)

FLess(x, y) == x.n * y.d < y.n * x.d

FMax(x, y) == IF FLess(x, y) THEN y ELSE x

(***************************************************************************)
(* The adjacency the passes rebuild from stats.edges.                      *)
(***************************************************************************)
\* adj_list[v]
Adj(edges, v) ==
    {edges[i].to : i \in {k \in 1..Len(edges) : edges[k].from = v}}
    \cup {edges[i].from : i \in {k \in 1..Len(edges) : edges[k].to = v}}

\* edge_weights.get((u, v), 1): the last edge between u and v wins
EdgeWeight(edges, u, v) ==
    LET at == {k \in 1..Len(edges) :
                  \/ (edges[k].from = u /\ edges[k].to = v)
                  \/ (edges[k].from = v /\ edges[k].to = u)}
    IN  IF at = {} THEN 1 ELSE edges[CHOOSE k \in at : \A j \in at : j <= k].value

NodeIds(st) == [i \in 1..Len(st.nodes) |-> st.nodes[i].id]

RECURSIVE SumOver(_, _, _, _)
SumOver(edges, node, neighbours, acc) ==
    IF neighbours = {} THEN acc
    ELSE LET w == CHOOSE w \in neighbours : TRUE
         IN  SumOver(edges, node, neighbours \ {w}, acc + EdgeWeight(edges, node, w))

\* degree_count: the weighted degree of every node that has a neighbour
RECURSIVE DegreeCount(_, _, _)
DegreeCount(edges, nodes, acc) ==
    IF nodes = <<>> THEN acc
    ELSE DegreeCount(edges, Tail(nodes),
             IF Adj(edges, Head(nodes)) = {} THEN acc
             ELSE Append(acc, [k |-> Head(nodes),
                               v |-> SumOver(edges, Head(nodes),
                                             Adj(edges, Head(nodes)), 0)]))

\* a faulty variant of the maximum below that takes the first value: with it
\* C10 fails
FirstValue(map) == map[1].v

RECURSIVE MaxValue(_)
MaxValue(map) ==
    IF Len(map) = 1 THEN map[1].v
    ELSE LET rest == MaxValue(Tail(map))
         IN  IF map[1].v > rest THEN map[1].v ELSE rest

\* degree centrality: count / max_degree
DegreeCentrality(edges, nodes) ==
    LET degree_count == DegreeCount(edges, nodes, <<>>)
        max_degree == IF degree_count # <<>> THEN MaxValue(degree_count) ELSE 1
    IN  [i \in 1..Len(degree_count) |->
            [k |-> degree_count[i].k, v |-> Frac(degree_count[i].v, max_degree)]]
(***************************************************************************)
(* Betweenness centrality: Brandes' algorithm as the code runs it.  The    *)
(* neighbours of a node are visited in id order (the code iterates a set,  *)
(* whose order does not change d, sigma or the sums).                      *)
(***************************************************************************)
SeqToSet(seq) == {seq[i] : i \in 1..Len(seq)}

\* the for-loop over adj_list[v] in the BFS
RECURSIVE BrandesNeighbours(_, _, _)
BrandesNeighbours(b, v, ws) ==
    IF ws = <<>> THEN b
    ELSE LET w == Head(ws)
             found == b.d[w] < 0
             d1 == IF found THEN [b.d EXCEPT ![w] = b.d[v] + 1] ELSE b.d
             q1 == IF found THEN Append(b.Q, w) ELSE b.Q
             onPath == d1[w] = d1[v] + 1
         IN  BrandesNeighbours(
                 [b EXCEPT !.d = d1, !.Q = q1,
                           !.sigma = IF onPath
                                     THEN [b.sigma EXCEPT ![w] = b.sigma[w] + b.sigma[v]]
                                     ELSE b.sigma,
                           !.P = IF onPath
                                 THEN [b.P EXCEPT ![w] = Append(b.P[w], v)]
                                 ELSE b.P],
                 v, Tail(ws))

\* while Q: v = Q.pop(0); S.append(v); ...
RECURSIVE BrandesBfs(_, _)
BrandesBfs(edges, b) ==
    IF b.Q = <<>> THEN b
    ELSE LET v == Head(b.Q)
         IN  BrandesBfs(edges,
                 BrandesNeighbours([b EXCEPT !.Q = Tail(b.Q), !.S = Append(b.S, v)],
                                   v, SortedIds(Adj(edges, v))))

\* for v in P[w]: delta[v] += (sigma[v] / sigma[w]) * (1 + delta[w])
RECURSIVE BrandesPreds(_, _, _, _)
BrandesPreds(b, delta, w, preds) ==
    IF preds = <<>> THEN delta
    ELSE LET v == Head(preds)
         IN  BrandesPreds(b,
                 [delta EXCEPT ![v] = FAdd(delta[v],
                      FMul(Frac(b.sigma[v], b.sigma[w]), FAdd(One, delta[w])))],
                 w, Tail(preds))

\* while S: w = S.pop(); ...; if w != s: betweenness[w] += delta[w]
RECURSIVE BrandesAccumulate(_, _, _, _, _)
BrandesAccumulate(b, s, stack, delta, betweenness) ==
    IF stack = <<>> THEN betweenness
    ELSE LET w == stack[Len(stack)]
             delta1 == BrandesPreds(b, delta, w, b.P[w])
         IN  BrandesAccumulate(b, s, SubSeq(stack, 1, Len(stack) - 1), delta1,
                 IF w # s
                 THEN [betweenness EXCEPT ![w] = FAdd(betweenness[w], delta1[w])]
                 ELSE betweenness)

\* the for-loop over the sources s
RECURSIVE BrandesSources(_, _, _, _)
BrandesSources(edges, ids, sources, betweenness) ==
    IF sources = <<>> THEN betweenness
    ELSE LET s == Head(sources)
             b == BrandesBfs(edges,
                      [Q |-> <<s>>, S |-> <<>>,
                       P |-> [v \in ids |-> <<>>],
                       sigma |-> [v \in ids |-> IF v = s THEN 1 ELSE 0],
                       d |-> [v \in ids |-> IF v = s THEN 0 ELSE -1]])
         IN  BrandesSources(edges, ids, Tail(sources),
                 BrandesAccumulate(b, s, b.S, [v \in ids |-> Zero], betweenness))

\* a faulty variant of the normalisation below that leaves the accumulated
\* dependencies as they are: with it a node between two others scores 2
BetweennessCentralityUnnormalised(edges, nodes) ==
    LET ids == SeqToSet(nodes)
        raw == BrandesSources(edges, ids, nodes, [v \in ids |-> Zero])
    IN  [i \in 1..Len(nodes) |-> [k |-> nodes[i], v |-> raw[nodes[i]]]]

\* betweenness centrality, normalised by (n-1)(n-2) when n > 2
BetweennessCentrality(edges, nodes) ==
    LET ids == SeqToSet(nodes)
        n == Len(nodes)
        raw == BrandesSources(edges, ids, nodes, [v \in ids |-> Zero])
    IN  [i \in 1..n |->
            [k |-> nodes[i],
             v |-> IF n > 2
                   THEN FMul(raw[nodes[i]], Frac(1, (n - 1) * (n - 2)))
                   ELSE raw[nodes[i]]]]

(***************************************************************************)
(* Hop distances by breadth-first search (closeness, average path length). *)
(***************************************************************************)
RECURSIVE BfsLevels(_, _, _, _)
BfsLevels(edges, dist, frontier, level) ==
    IF frontier = {} THEN dist
    ELSE LET next == UNION {Adj(edges, v) : v \in frontier} \ DOMAIN dist
         IN  BfsLevels(edges,
                       [v \in DOMAIN dist \cup next |->
                           IF v \in DOMAIN dist THEN dist[v] ELSE level + 1],
                       next, level + 1)

\* distances[v] for the nodes reachable from source (the others stay at inf)
Distances(edges, source) == BfsLevels(edges, [v \in {source} |-> 0], {source}, 0)

RECURSIVE SumDist(_, _)
SumDist(dist, vs) ==
    IF vs = {} THEN 0
    ELSE LET v == CHOOSE v \in vs : TRUE IN dist[v] + SumDist(dist, vs \ {v})

\* a faulty variant of the closeness below that gives a node that reaches no
\* other node the closeness 1.0
ClosenessCentralityOfLoneNodeOne(edges, nodes) ==
    [i \in 1..Len(nodes) |->
        LET dist == Distances(edges, nodes[i])
            reachable == {v \in DOMAIN dist \cap SeqToSet(nodes) : dist[v] > 0}
        IN  [k |-> nodes[i],
             v |-> IF reachable # {}
                   THEN Frac(Cardinality(reachable), SumDist(dist, reachable))
                   ELSE One]]

\* closeness centrality: len(reachable) / sum(reachable), 0.0 without any
ClosenessCentrality(edges, nodes) ==
    [i \in 1..Len(nodes) |->
        LET dist == Distances(edges, nodes[i])
            reachable == {v \in DOMAIN dist \cap SeqToSet(nodes) : dist[v] > 0}
        IN  [k |-> nodes[i],
             v |-> IF reachable # {}
                   THEN Frac(Cardinality(reachable), SumDist(dist, reachable))
                   ELSE Zero]]

(***************************************************************************)
(* _calculate_centrality_measures                                          *)
(***************************************************************************)
\* max(items, key=value): the first entry holding the largest value
FirstMax(map) ==
    map[CHOOSE i \in 1..Len(map) :
            /\ \A j \in 1..Len(map) : ~FLess(map[i].v, map[j].v)
            /\ \A j \in 1..(i - 1) : FLess(map[j].v, map[i].v)]

\* combined = 0.5 * degree + 0.3 * betweenness + 0.2 * closeness
CombinedScore(dc, bc, cc, node) ==
    FAdd(FMul(Frac(5, 10), MapGet(dc, node, Zero)),
         FAdd(FMul(Frac(3, 10), MapGet(bc, node, Zero)),
              FMul(Frac(2, 10), MapGet(cc, node, Zero))))

calculate_centrality_measures(st, names) ==
    IF st.total_nodes = 0 THEN st
    ELSE LET nodes == NodeIds(st)
             dc == DegreeCentrality(st.edges, nodes)
             bc == BetweennessCentrality(st.edges, nodes)
             cc == ClosenessCentrality(st.edges, nodes)
             combined_scores ==
                 [i \in 1..Len(nodes) |->
                     [k |-> nodes[i], v |-> CombinedScore(dc, bc, cc, nodes[i])]]
             most_popular == FirstMax(combined_scores)
         IN  [st EXCEPT
                 !.degree_centrality = dc,
                 !.betweenness_centrality = bc,
                 !.closeness_centrality = cc,
                 !.nodes = [i \in 1..Len(st.nodes) |->
                               [st.nodes[i] EXCEPT
                                   !.value = FMax(MapGet(dc, st.nodes[i].id, Zero),
                                                  Frac(1, 10))]],
                 !.most_popular_user =
                     IF dc # <<>>
                     THEN <<[qq |-> most_popular.k,
                             name |-> DisplayName(names, most_popular.k),
                             centrality |-> most_popular.v,
                             degree |-> MapGet(dc, most_popular.k, Zero),
                             betweenness |-> MapGet(bc, most_popular.k, Zero),
                             closeness |-> MapGet(cc, most_popular.k, Zero)]>>
                     ELSE st.most_popular_user]

(***************************************************************************)
(* _detect_communities: label propagation.  The shuffles and the random    *)
(* choices among tied labels are the nondeterminism of the loop.           *)
(***************************************************************************)
MaxIterations == 100

\* a faulty variant of the initial labels below that gives every node the
\* label 0
InitialLabelsAllZero(nodes) == [v \in SeqToSet(nodes) |-> 0]

\* labels = {node: i for i, node in enumerate(nodes)}
InitialLabels(nodes) ==
    [v \in SeqToSet(nodes) |-> (CHOOSE i \in 1..Len(nodes) : nodes[i] = v) - 1]

\* label_weights[l]: the summed weight of node's edges to neighbours labelled l
RECURSIVE LabelWeight(_, _, _, _, _)
LabelWeight(edges, labels, node, neighbours, l) ==
    IF neighbours = {} THEN 0
    ELSE LET w == CHOOSE w \in neighbours : TRUE
         IN  (IF labels[w] = l THEN EdgeWeight(edges, node, w) ELSE 0)
             + LabelWeight(edges, labels, node, neighbours \ {w}, l)

\* best_labels: the neighbour labels of the largest summed weight
BestLabels(edges, labels, node) ==
    LET nb == Adj(edges, node)
        ls == {labels[w] : w \in nb}
    IN  {l \in ls : \A m \in ls :
            LabelWeight(edges, labels, node, nb, l)
                >= LabelWeight(edges, labels, node, nb, m)}

\* the body of "for node in nodes" with random.choice returning new_label
VisitNode(labels, node, new_label) == (node :> new_label) @@ labels

\* one pass "for node in nodes" after random.shuffle: every [labels, changed]
\* some visiting order and some tie-breaks end the pass with
RECURSIVE PassOutcomes(_, _, _, _)
PassOutcomes(edges, labels, todo, changed) ==
    IF todo = {} THEN {[labels |-> labels, changed |-> changed]}
    ELSE UNION {
             IF Adj(edges, node) = {}
             THEN PassOutcomes(edges, labels, todo \ {node}, changed)
             ELSE UNION {PassOutcomes(edges, VisitNode(labels, node, new_label),
                                      todo \ {node},
                                      changed \/ labels[node] # new_label) :
                            new_label \in BestLabels(edges, labels, node)} :
             node \in todo}

\* "for iteration in range(max_iterations)".  seen[k + 1] holds the labellings
\* the pass numbered k may start from, finals those the loop has ended with: a
\* pass without a change ends the loop, and so does the last pass.  When the
\* passes lead back to the starts of an earlier pass the later passes repeat
\* that cycle, and the last pass ends where the cycle stands at MaxIterations.
\* (The outcomes of a pass are held in a bound variable to be computed once.)
RECURSIVE PropagationLoop(_, _, _)
PropagationLoop(edges, seen, finals) ==
    UNION {LET stopped == {o.labels : o \in {x \in outcomes : ~x.changed}}
               goesOn == {o.labels : o \in {x \in outcomes : x.changed}}
               earlier == {j \in 1..Len(seen) : seen[j] = goesOn}
           IN  IF Len(seen) = MaxIterations
               THEN finals \cup stopped \cup goesOn
               ELSE IF earlier # {}
               THEN LET j == CHOOSE j \in earlier : TRUE
                        period == Len(seen) + 1 - j
                    IN  finals \cup stopped
                            \cup seen[j + ((MaxIterations + 1 - j) % period)]
               ELSE PropagationLoop(edges, Append(seen, goesOn), finals \cup stopped) :
           outcomes \in {UNION {PassOutcomes(edges, l, DOMAIN l, FALSE) :
                                   l \in seen[Len(seen)]}}}

\* the labellings the propagation loop of _detect_communities can end with
FinalLabels(edges, nodes) == PropagationLoop(edges, <<{InitialLabels(nodes)}>>, {})

\* community_members.values(), each sorted, those of more than one member:
\* the communities come in the order of their first node in labels
Communities(nodes, labels) ==
    LET firsts == {i \in 1..Len(nodes) :
                      \A j \in 1..(i - 1) : labels[nodes[j]] # labels[nodes[i]]}
        groups == [i \in firsts |-> {v \in SeqToSet(nodes) : labels[v] = labels[nodes[i]]}]
        kept == {i \in firsts : Cardinality(groups[i]) > 1}
        order == StableOrder(kept, [i \in kept |-> <<0, i>>])
    IN  [k \in 1..Len(order) |-> SortedIds(groups[order[k]])]

\* max(self.stats.edges, key=lambda x: x['value']): the first heaviest edge
MostActive(edges) ==
    edges[CHOOSE i \in 1..Len(edges) :
              /\ \A j \in 1..Len(edges) : edges[j].value <= edges[i].value
              /\ \A j \in 1..(i - 1) : edges[j].value < edges[i].value]

\* the end of _detect_communities, after the propagation loop
collect_communities(st, labels, names) ==
    LET most_active == MostActive(st.edges)
    IN  [st EXCEPT
            !.communities = Communities(NodeIds(st), labels),
            !.most_active_pair =
                <<[pair |-> <<most_active.from, most_active.to>>,
                   name1 |-> DisplayName(names, most_active.from),
                   name2 |-> DisplayName(names, most_active.to),
                   weight |-> most_active.value]>>]

(***************************************************************************)
(* _compute_network_metrics                                                *)
(***************************************************************************)
\* the clustering coefficient of one node
Clustering(edges, node) ==
    LET neighbors == Adj(edges, node)
        k == Cardinality(neighbors)
        edges_between_neighbors ==
            Cardinality({p \in neighbors \X neighbors :
                            IdLess(p[1], p[2]) /\ p[2] \in Adj(edges, p[1])})
    IN  IF k < 2 THEN Zero ELSE Frac(2 * edges_between_neighbors, k * (k - 1))

RECURSIVE FSum(_)
FSum(fs) == IF fs = <<>> THEN Zero ELSE FAdd(Head(fs), FSum(Tail(fs)))

RECURSIVE SumSeq(_)
SumSeq(xs) == IF xs = <<>> THEN 0 ELSE Head(xs) + SumSeq(Tail(xs))

\* a faulty variant of the density below that counts the ordered pairs
NetworkDensityDirected(total_edges, n) ==
    IF n * (n - 1) > 0 THEN Frac(total_edges, n * (n - 1)) ELSE Zero

\* total_edges / (n * (n - 1) / 2) if that is positive, else 0
NetworkDensity(total_edges, n) ==
    IF n * (n - 1) > 0 THEN Frac(2 * total_edges, n * (n - 1)) ELSE Zero

compute_network_metrics(st) ==
    IF st.total_nodes <= 1 THEN st
    ELSE LET nodes == NodeIds(st)
             n == Len(nodes)
             others(i) == (DOMAIN Distances(st.edges, nodes[i]) \cap SeqToSet(nodes))
                              \ {nodes[i]}
             total_path_length ==
                 SumSeq([i \in 1..n |-> SumDist(Distances(st.edges, nodes[i]), others(i))])
             path_count == SumSeq([i \in 1..n |-> Cardinality(others(i))])
         IN  [st EXCEPT
                 !.network_density = NetworkDensity(st.total_edges, n),
                 !.average_clustering =
                     FMul(FSum([i \in 1..n |-> Clustering(st.edges, nodes[i])]),
                          Frac(1, n)),
                 !.average_path_length =
                     IF path_count > 0 THEN Frac(total_path_length, path_count) ELSE Zero]

(***************************************************************************)
(* The analyzer as a state machine.                                        *)
(***************************************************************************)
VARIABLES
    cfg,          \* the configuration set by __init__
    messages,     \* self.messages
    qq_to_name,   \* self.qq_to_name
    stats,        \* self.stats
    lpa_labels,   \* the labels the last analyze() ended label propagation with
    loads,        \* load_messages calls so far
    runs,         \* analyze() calls since the last load_messages
    last_op,      \* the last call: "init", "load", "analyze"
    sequential,   \* what _analyze_similarity_sequential returned
    parallel,     \* what _analyze_similarity_parallel returned
    pool_raised,  \* whether the process pool raised in that call
    sim_done,     \* which of the two similarity paths have been run
    scan,         \* the last call of a conversation or weight function
    lpa           \* the locals of _detect_communities during its loop

analyzer == <<cfg, messages, qq_to_name, stats, lpa_labels, loads, runs, last_op>>

similarity == <<sequential, parallel, pool_raised, sim_done>>

passes == <<scan, lpa>>

vars == <<analyzer, similarity, passes>>

\* NetworkStats.__init__
EmptyStats ==
    [total_nodes |-> 0, total_edges |-> 0, nodes |-> <<>>, edges |-> <<>>,
     original_nodes_count |-> 0, original_edges_count |-> 0,
     degree_centrality |-> <<>>, betweenness_centrality |-> <<>>,
     closeness_centrality |-> <<>>,
     most_popular_user |-> <<>>, most_active_pair |-> <<>>,
     interaction_matrix |-> <<>>,
     average_clustering |-> Zero, network_density |-> Zero,
     average_path_length |-> Zero,
     communities |-> <<>>]

(***************************************************************************)
(* Bounds of the model and the inputs drawn within them.                   *)
(***************************************************************************)
MaxMsgs == 4

MaxReloadMsgs == 1

MaxLoads == 2

MaxRuns == 2

MaxCapArg == 2

FarGap == 40

\* NetworkAnalyzer(enable_parallel, max_nodes_for_viz, max_edges_for_viz,
\* limit_compute); a cap argument of 0 stands for None
Config(enable_parallel, max_nodes_for_viz, max_edges_for_viz, limit_compute) ==
    [enable_parallel |-> enable_parallel,
     max_nodes_for_viz |-> CapOrDefault(max_nodes_for_viz, DefaultMaxNodes),
     max_edges_for_viz |-> CapOrDefault(max_edges_for_viz, DefaultMaxEdges),
     limit_compute |-> limit_compute]

\* NetworkAnalyzer()
DefaultConfig == Config(TRUE, 0, 0, FALSE)

\* enable_parallel keeps its default: with the senders of Users there are
\* never more than ParallelPairThreshold pairs, so analyze() does not read it
Configs ==
    {Config(TRUE, mn, me, lim) :
        mn \in 0..MaxCapArg, me \in 0..MaxCapArg, lim \in BOOLEAN}

Contents == {<<>>, <<"tea", "cake">>}

\* the minutes of n messages one minute apart, with a pause of FarGap after
\* the first j of them
TimePatterns(n) ==
    {[k \in 1..n |-> k + (IF k > j THEN FarGap ELSE 0)] : j \in 1..n}

\* a chat of n messages: who sends each, when, whether each message mentions
\* the sender of the message before it, and what every message says
Chat(senders, times, mention_prev, content) ==
    [k \in 1..Len(senders) |->
        [qq |-> senders[k], sender |-> NameOf(senders[k]),
         time |-> times[k], timestamp_ms |-> 0,
         content |-> content,
         mentions |-> IF mention_prev /\ k > 1 THEN {senders[k - 1]} ELSE {},
         reply_to_qq |-> "",
         is_system |-> FALSE, is_recalled |-> FALSE]]

Chats(maxLen) ==
    UNION {{Chat(senders, times, mention_prev, content) :
               senders \in [1..n -> Users], times \in TimePatterns(n),
               mention_prev \in BOOLEAN, content \in Contents} : n \in 0..maxLen}

(***************************************************************************)
(* Init and the actions.                                                   *)
(***************************************************************************)
NoSimilarityRun ==
    /\ sequential = <<>>
    /\ parallel = <<>>
    /\ pool_raised = FALSE
    /\ sim_done = {}

\* no conversation or weight function called yet
NoScan ==
    [op |-> "none", conversations |-> <<>>, similarities |-> <<>>,
     weights |-> <<>>, pair |-> <<>>, dt |-> 0, score |-> 0, swapped |-> 0]

\* _detect_communities not entered
NoLpa ==
    [phase |-> "idle", labels |-> <<>>, start |-> <<>>, todo |-> {},
     iteration |-> 0, changed |-> FALSE]

NoPasses ==
    /\ scan = NoScan
    /\ lpa = NoLpa

Init ==
    /\ cfg \in Configs
    /\ messages = <<>>
    /\ qq_to_name = <<>>
    /\ stats = EmptyStats
    /\ lpa_labels = <<>>
    /\ loads = 0
    /\ runs = 0
    /\ last_op = "init"
    /\ NoSimilarityRun
    /\ NoPasses

\* load_messages(list)
LoadMessages(list) ==
    /\ loads < MaxLoads
    /\ messages' = LoadedMessages(list, cfg.limit_compute, cfg.max_nodes_for_viz)
    /\ qq_to_name' = AddNames(messages', qq_to_name)
    /\ loads' = loads + 1
    /\ runs' = 0
    /\ last_op' = "load"
    /\ UNCHANGED <<cfg, stats, lpa_labels, similarity, passes>>

Load == \E list \in Chats(IF loads = 0 THEN MaxMsgs ELSE MaxReloadMsgs) : LoadMessages(list)

\* analyze() up to _detect_communities
Measured(st, msgs, config, names, pool_fails) ==
    calculate_centrality_measures(
        build_interaction_graph(st, msgs, config, names, pool_fails), names)

\* analyze() from _detect_communities on, the propagation loop ending with labels
Completed(measured, labels, names) ==
    IF measured.edges = <<>>
    THEN compute_network_metrics(measured)
    ELSE compute_network_metrics(collect_communities(measured, labels, names))

\* whether _analyze_content_similarity hands the pairs to the process pool
UsesPool(msgs, config) ==
    /\ config.enable_parallel
    /\ Len(user_pairs_of(user_contents_of(msgs))) > ParallelPairThreshold

\* analyze(): pool_fails is whether the process pool raises, labels what the
\* random choices of label propagation lead to (none without an edge)
Analyze(pool_fails, measured, labels) ==
    /\ runs < MaxRuns
    /\ messages # <<>>
    /\ stats' = Completed(measured, labels, qq_to_name)
    /\ lpa_labels' = labels
    /\ runs' = runs + 1
    /\ last_op' = "analyze"
    /\ UNCHANGED <<cfg, messages, qq_to_name, loads, similarity, passes>>

\* analyze() without messages: return self.stats
AnalyzeNothing ==
    /\ runs < MaxRuns
    /\ messages = <<>>
    /\ lpa_labels' = <<>>
    /\ runs' = runs + 1
    /\ last_op' = "analyze"
    /\ UNCHANGED <<cfg, messages, qq_to_name, stats, loads, similarity, passes>>

AnalyzeCall ==
    \/ AnalyzeNothing
    \/ \E pool_fails \in IF UsesPool(messages, cfg) THEN BOOLEAN ELSE {FALSE} :
           \E measured \in {Measured(stats, messages, cfg, qq_to_name, pool_fails)} :
               \E labels \in IF measured.edges = <<>> THEN {<<>>}
                             ELSE FinalLabels(measured.edges, NodeIds(measured)) :
                   Analyze(pool_fails, measured, labels)

Next == Load \/ AnalyzeCall

Spec == Init /\ [][Next]_vars

(***************************************************************************)
(* The two similarity paths run side by side on the contents of a loaded   *)
(* chat.  analyze() hands the pairs to the process pool only above         *)
(* ParallelPairThreshold pairs; here both paths are applied to every chat. *)
(***************************************************************************)
SimInit ==
    /\ cfg = DefaultConfig
    /\ \E list \in Chats(MaxMsgs) :
           /\ messages = LoadedMessages(list, cfg.limit_compute, cfg.max_nodes_for_viz)
           /\ qq_to_name = AddNames(messages, <<>>)
    /\ stats = EmptyStats
    /\ lpa_labels = <<>>
    /\ loads = 1
    /\ runs = 0
    /\ last_op = "load"
    /\ NoSimilarityRun
    /\ NoPasses

\* _analyze_similarity_sequential(user_contents, user_pairs)
SimilaritySequential ==
    /\ "sequential" \notin sim_done
    /\ sequential' = analyze_similarity_sequential(
                         user_contents_of(messages),
                         user_pairs_of(user_contents_of(messages)))
    /\ sim_done' = sim_done \cup {"sequential"}
    /\ UNCHANGED <<analyzer, parallel, pool_raised, passes>>

\* _analyze_similarity_parallel(user_contents, user_pairs)
SimilarityParallel ==
    /\ "parallel" \notin sim_done
    /\ \E pool_fails \in BOOLEAN :
           /\ parallel' = analyze_similarity_parallel(
                              user_contents_of(messages),
                              user_pairs_of(user_contents_of(messages)), pool_fails)
           /\ pool_raised' = pool_fails
    /\ sim_done' = sim_done \cup {"parallel"}
    /\ UNCHANGED <<analyzer, sequential, passes>>

SimNext == SimilaritySequential \/ SimilarityParallel

SpecSim == SimInit /\ [][SimNext]_vars

(***************************************************************************)
(* Conversation extraction and weight aggregation applied to loaded lists  *)
(* whose messages differ in time string, numeric timestamp and kind.       *)
(***************************************************************************)
MaxScanMsgs == 3

\* the time strings of the messages: empty, two neighbouring minutes, a
\* minute FarGap later, malformed
StampTimes == {0, 1, 2, 2 + FarGap, Malformed}

MessageKinds == {"text", "system", "recalled"}

\* a message of an export with or without numeric timestamps; a numeric
\* timestamp agrees with the time string where that is well-formed
StampedMessage(qq, time, has_ms, kind) ==
    [qq |-> qq, sender |-> NameOf(qq), time |-> time,
     timestamp_ms |-> IF ~has_ms THEN 0 ELSE IF time \in {0, Malformed} THEN 1 ELSE time,
     content |-> <<"tea">>, mentions |-> {}, reply_to_qq |-> "",
     is_system |-> kind = "system", is_recalled |-> kind = "recalled"]

\* a list of such messages in any order, the senders taking turns
StampedChat(times, has_ms, kinds) ==
    [k \in 1..Len(times) |->
        StampedMessage(UserIds[((k - 1) % Len(UserIds)) + 1],
                       times[k], has_ms[k], kinds[k])]

\* contents of five and of six tokens that share one token, and a content
\* too short to count
TopicContents ==
    {<<"tea", "cake", "milk", "rice", "soup">>,
     <<"tea", "corn", "plum", "pear", "lime">>,
     <<"tea", "corn", "plum", "pear", "lime", "kiwi">>,
     <<"k">>}

\* "a" posts n1 messages of content1, then "b" n2 of content2, a minute apart
TopicChat(n1, content1, n2, content2) ==
    [k \in 1..(n1 + n2) |->
        [qq |-> IF k <= n1 THEN "a" ELSE "b",
         sender |-> NameOf(IF k <= n1 THEN "a" ELSE "b"),
         time |-> k, timestamp_ms |-> 0,
         content |-> IF k <= n1 THEN content1 ELSE content2,
         mentions |-> {}, reply_to_qq |-> "",
         is_system |-> FALSE, is_recalled |-> FALSE]]

\* a new analyzer of the default configuration after load_messages(list)
Loaded(list) ==
    /\ cfg = DefaultConfig
    /\ messages = LoadedMessages(list, cfg.limit_compute, cfg.max_nodes_for_viz)
    /\ qq_to_name = AddNames(messages, <<>>)
    /\ stats = EmptyStats
    /\ lpa_labels = <<>>
    /\ loads = 1
    /\ runs = 0
    /\ last_op = "load"
    /\ NoSimilarityRun
    /\ NoPasses

ScanInit ==
    \/ \E list \in Chats(MaxMsgs) : Loaded(list)
    \/ \E n \in 1..MaxScanMsgs :
           \E times \in [1..n -> StampTimes], has_ms \in [1..n -> BOOLEAN],
              kinds \in [1..n -> MessageKinds] :
               Loaded(StampedChat(times, has_ms, kinds))
    \/ \E n1, n2 \in 1..2 :
           \E content1, content2 \in TopicContents :
               Loaded(TopicChat(n1, content1, n2, content2))

\* conversations = self._extract_conversations()
ExtractConversations ==
    /\ scan.op = "none"
    /\ scan' = [scan EXCEPT !.op = "extract",
                            !.conversations = extract_conversations(messages)]
    /\ UNCHANGED <<analyzer, similarity, lpa>>

\* content_similarities = self._analyze_content_similarity() on either path,
\* then self._calculate_interaction_weights(conversations, content_similarities)
CombineWeights ==
    /\ scan.op = "extract"
    /\ \E sims \in {analyze_similarity_sequential(
                         user_contents_of(messages),
                         user_pairs_of(user_contents_of(messages))),
                     analyze_similarity_parallel(
                         user_contents_of(messages),
                         user_pairs_of(user_contents_of(messages)), FALSE)} :
           scan' = [scan EXCEPT
                       !.op = "combine",
                       !.similarities = sims,
                       !.weights = calculate_interaction_weights(scan.conversations, sims)]
    /\ UNCHANGED <<analyzer, similarity, lpa>>

ScanNext == ExtractConversations \/ CombineWeights

SpecScan == ScanInit /\ [][ScanNext]_vars

(***************************************************************************)
(* The conversation score applied to pairs of messages that differ in      *)
(* content, mention list and reply target, at gaps around its thresholds.  *)
(***************************************************************************)
ScoreContents ==
    {<<>>, <<"cake">>, <<"tea", "cake", "milk">>, <<"tea", "k", "@a">>, <<"tea", "k", "@b">>}

ScoreTargets == {"", "a", "b"}

Gaps == {0, 5, 6, 15, 16, ConversationWindow}

ScoredMessage(qq, time, content, mention, reply_to_qq) ==
    [qq |-> qq, sender |-> NameOf(qq), time |-> time, timestamp_ms |-> 0,
     content |-> content,
     mentions |-> IF mention = "" THEN {} ELSE {mention},
     reply_to_qq |-> reply_to_qq,
     is_system |-> FALSE, is_recalled |-> FALSE]

ScoreChats ==
    {<<ScoredMessage("a", 1, c1, m1, r1), ScoredMessage("b", 2, c2, m2, r2)>> :
        c1 \in ScoreContents, m1 \in ScoreTargets, r1 \in ScoreTargets,
        c2 \in ScoreContents, m2 \in ScoreTargets, r2 \in ScoreTargets}

ScoreInit == \E list \in ScoreChats : Loaded(list)

\* the conditions under which _extract_conversations scores msg1 with msg2
IsCandidatePair(msg1, msg2) ==
    /\ ~(msg1.is_system \/ msg1.is_recalled)
    /\ ~(msg2.is_system \/ msg2.is_recalled)
    /\ parse_timestamp(msg1.time) # None
    /\ parse_timestamp(msg2.time) # None
    /\ msg1.qq # ""
    /\ msg2.qq # ""
    /\ msg1.qq # msg2.qq

\* self._calculate_conversation_score(msg1, msg2, time_diff), and the same
\* call with the two messages exchanged
ScorePair ==
    /\ scan.op = "none"
    /\ \E i, j \in DOMAIN messages :
           \E dt \in Gaps :
               /\ i < j
               /\ IsCandidatePair(messages[i], messages[j])
               /\ scan' = [scan EXCEPT
                               !.op = "score",
                               !.pair = <<i, j>>,
                               !.dt = dt,
                               !.score = calculate_conversation_score(
                                             messages[i], messages[j], dt),
                               !.swapped = calculate_conversation_score(
                                               messages[j], messages[i], dt)]
    /\ UNCHANGED <<analyzer, similarity, lpa>>

ScoreNext == ScorePair

SpecScore == ScoreInit /\ [][ScoreNext]_vars

(***************************************************************************)
(* _detect_communities step by step: analyze() on a new analyzer has built *)
(* the graph and the centralities and now runs label propagation, one      *)
(* visit of a node at a time.                                              *)
(***************************************************************************)
(***************************************************************************)
(* Weight maps over GraphIds, the argument of _construct_network_graph.    *)
(***************************************************************************)
MaxGraphCap == 4

\* weights 1.4, 2.1 and 2.8: 0.7 times conversation scores of 2, 3 and 4
EdgeWeights == <<14 * (WeightUnit \div 10), 21 * (WeightUnit \div 10), 28 * (WeightUnit \div 10)>>

\* the index pairs i < j of GraphIds
IndexPairs == {p \in (1..Len(GraphIds)) \X (1..Len(GraphIds)) : p[1] < p[2]}

\* the weight map with the pairs of present from <<i, j>> on, in the order of
\* the pairs, the weights taken in turn from EdgeWeights
RECURSIVE WeightsFrom(_, _, _, _)
WeightsFrom(i, j, present, count) ==
    IF i >= Len(GraphIds) THEN <<>>
    ELSE IF j > Len(GraphIds) THEN WeightsFrom(i + 1, i + 2, present, count)
    ELSE IF <<i, j>> \in present
         THEN <<[k |-> <<GraphIds[i], GraphIds[j]>>,
                 v |-> EdgeWeights[(count % Len(EdgeWeights)) + 1]]>>
              \o WeightsFrom(i, j + 1, present, count + 1)
         ELSE WeightsFrom(i, j + 1, present, count)

Reversed(seq) == [i \in 1..Len(seq) |-> seq[Len(seq) + 1 - i]]

MaxLpaEdges == 2

\* the analyzer when analyze() enters _detect_communities: after a load, or
\* with the graph of a weight map of at most MaxLpaEdges pairs over GraphIds
LpaInit ==
    \/ \E list \in Chats(MaxMsgs) :
           /\ cfg = DefaultConfig
           /\ messages = LoadedMessages(list, cfg.limit_compute, cfg.max_nodes_for_viz)
           /\ qq_to_name = AddNames(messages, <<>>)
           /\ stats = IF messages = <<>> THEN EmptyStats
                      ELSE Measured(EmptyStats, messages, cfg, qq_to_name, FALSE)
           /\ lpa_labels = <<>>
           /\ loads = 1
           /\ runs = 0
           /\ last_op = "load"
           /\ NoSimilarityRun
           /\ NoPasses
    \/ \E present \in SUBSET IndexPairs :
           \E max_nodes \in {0, MaxLpaEdges + 1} :
               /\ Cardinality(present) <= MaxLpaEdges
               /\ cfg = Config(TRUE, max_nodes, 0, FALSE)
               /\ messages = <<>>
               /\ qq_to_name = <<>>
               /\ stats = calculate_centrality_measures(
                              construct_network_graph(
                                  EmptyStats, WeightsFrom(1, 2, present, 0),
                                  cfg.max_nodes_for_viz, cfg.max_edges_for_viz,
                                  qq_to_name),
                              qq_to_name)
               /\ lpa_labels = <<>>
               /\ loads = 0
               /\ runs = 0
               /\ last_op = "init"
               /\ NoSimilarityRun
               /\ NoPasses

\* lines 667 to 687: with an edge, every node gets its own label
LpaStart ==
    /\ lpa.phase = "idle"
    /\ stats.edges # <<>>
    /\ lpa' = [phase |-> "pass",
               labels |-> InitialLabels(NodeIds(stats)),
               start |-> InitialLabels(NodeIds(stats)),
               todo |-> SeqToSet(NodeIds(stats)),
               iteration |-> 1,
               changed |-> FALSE]
    /\ UNCHANGED <<analyzer, similarity, scan>>

\* the body of "for node in nodes" for the node the shuffle put next
LpaVisit ==
    /\ lpa.phase = "pass"
    /\ \E node \in lpa.todo :
           IF Adj(stats.edges, node) = {}
           THEN lpa' = [lpa EXCEPT !.todo = @ \ {node}]
           ELSE \E new_label \in BestLabels(stats.edges, lpa.labels, node) :
                    lpa' = [lpa EXCEPT
                               !.todo = @ \ {node},
                               !.labels = VisitNode(lpa.labels, node, new_label),
                               !.changed = @ \/ lpa.labels[node] # new_label]
    /\ UNCHANGED <<analyzer, similarity, scan>>

\* a pass that changed a label is followed by the next iteration
LpaNextPass ==
    /\ lpa.phase = "pass"
    /\ lpa.todo = {}
    /\ lpa.changed
    /\ lpa.iteration < MaxIterations
    /\ lpa' = [lpa EXCEPT !.start = lpa.labels,
                          !.todo = SeqToSet(NodeIds(stats)),
                          !.iteration = @ + 1,
                          !.changed = FALSE]
    /\ UNCHANGED <<analyzer, similarity, scan>>

\* a faulty variant of the end below that leaves the loop only after a pass
\* without a change
LpaEndWhenUnchanged ==
    /\ lpa.phase = "pass"
    /\ lpa.todo = {}
    /\ ~lpa.changed
    /\ lpa' = [lpa EXCEPT !.phase = "done"]
    /\ stats' = collect_communities(stats, lpa.labels, qq_to_name)
    /\ lpa_labels' = lpa.labels
    /\ UNCHANGED <<cfg, messages, qq_to_name, loads, runs, last_op, similarity, scan>>

\* the loop ends after a pass without a change or after the last iteration;
\* lines 716 to 735 collect the communities
LpaEnd ==
    /\ lpa.phase = "pass"
    /\ lpa.todo = {}
    /\ ~lpa.changed \/ lpa.iteration = MaxIterations
    /\ lpa' = [lpa EXCEPT !.phase = "done"]
    /\ stats' = collect_communities(stats, lpa.labels, qq_to_name)
    /\ lpa_labels' = lpa.labels
    /\ UNCHANGED <<cfg, messages, qq_to_name, loads, runs, last_op, similarity, scan>>

LpaNext == LpaStart \/ LpaVisit \/ LpaNextPass \/ LpaEnd

SpecLpa == LpaInit /\ [][LpaNext]_vars

\* _detect_communities runs in one thread and none of its statements waits:
\* a step that can be taken is taken
SpecLpaFair == SpecLpa /\ WF_vars(LpaNext)

(***************************************************************************)
(* _construct_network_graph and _calculate_centrality_measures applied to  *)
(* interaction-weight maps over GraphIds, as analyze() calls them in turn. *)
(***************************************************************************)
\* the arguments of _construct_network_graph on a new analyzer: a weight map
\* over GraphIds and the two caps
GraphInit ==
    \E present \in SUBSET IndexPairs :
        \E shift \in 0..1, backwards \in BOOLEAN :
            \E max_nodes, max_edges \in 1..MaxGraphCap :
                /\ cfg = Config(TRUE, max_nodes, max_edges, FALSE)
                /\ messages = <<>>
                /\ qq_to_name = <<>>
                /\ stats = EmptyStats
                /\ lpa_labels = <<>>
                /\ loads = 0
                /\ runs = 0
                /\ last_op = "init"
                /\ NoSimilarityRun
                /\ lpa = NoLpa
                /\ scan = [NoScan EXCEPT
                              !.op = "weights",
                              !.weights =
                                  IF backwards
                                  THEN Reversed(WeightsFrom(1, 2, present, shift))
                                  ELSE WeightsFrom(1, 2, present, shift)]

\* self._construct_network_graph(interaction_weights)
ConstructGraph ==
    /\ scan.op = "weights"
    /\ scan' = [scan EXCEPT !.op = "graph"]
    /\ stats' = construct_network_graph(stats, scan.weights, cfg.max_nodes_for_viz,
                                        cfg.max_edges_for_viz, qq_to_name)
    /\ UNCHANGED <<cfg, messages, qq_to_name, lpa_labels, loads, runs, last_op>>
    /\ UNCHANGED <<similarity, lpa>>

\* self._calculate_centrality_measures()
MeasureCentrality ==
    /\ scan.op = "graph"
    /\ scan' = [scan EXCEPT !.op = "centrality"]
    /\ stats' = calculate_centrality_measures(stats, qq_to_name)
    /\ UNCHANGED <<cfg, messages, qq_to_name, lpa_labels, loads, runs, last_op>>
    /\ UNCHANGED <<similarity, lpa>>

GraphNext == ConstructGraph \/ MeasureCentrality

SpecGraph == GraphInit /\ [][GraphNext]_vars

(***************************************************************************)
(* Properties of the lifecycle: load_messages and analyze on one instance. *)
(***************************************************************************)
\* what a freshly constructed analyzer of configuration cfg returns for the
\* loaded messages when label propagation ends with lpa_labels
FreshResult ==
    IF messages = <<>> THEN EmptyStats
    ELSE Completed(Measured(EmptyStats, messages, cfg, AddNames(messages, <<>>), FALSE),
                   lpa_labels, AddNames(messages, <<>>))

\* C1: the stats analyze() returns are those a fresh analyzer of the same
\* configuration returns for the list of the most recent load_messages, with
\* the same label-propagation choices; nothing of an earlier load or analysis
\* survives (after load_messages([]) the stats are empty and all zero).
C1_StatelessAcrossCalls == last_op = "analyze" => stats = FreshResult

\* the ids of the senders of the loaded messages
Senders == {messages[k].qq : k \in 1..Len(messages)}

\* no message of qq1 and message of qq2 lie within the conversation window
NeverWithinWindow(qq1, qq2) ==
    \A i, j \in 1..Len(messages) :
        messages[i].qq = qq1 /\ messages[j].qq = qq2 =>
            \/ messages[j].time - messages[i].time > ConversationWindow
            \/ messages[i].time - messages[j].time > ConversationWindow

\* the similarity the engine finds for the pair, 0 when it passes none on
SimilarityOf(qq1, qq2) ==
    MapGet(analyze_content_similarity(messages, cfg.enable_parallel, FALSE),
           SortedPair(qq1, qq2), 0)

\* stats.edges holds an edge between qq1 and qq2 of the given weight
HasEdgeOfWeight(qq1, qq2, weight) ==
    \E i \in 1..Len(stats.edges) :
        /\ {stats.edges[i].from, stats.edges[i].to} = {qq1, qq2}
        /\ stats.edges[i].value = weight

HasEdge(qq1, qq2) ==
    \E i \in 1..Len(stats.edges) : {stats.edges[i].from, stats.edges[i].to} = {qq1, qq2}

\* C4: with the default configuration, two senders who never fall within the
\* conversation window of each other and whose similarity s passes the
\* similarity threshold get an edge of weight 0.3 * s, unless
\* 0.3 * s < min_edge_weight.
C4_SimilarityOnlyEdge ==
    (last_op = "analyze" /\ cfg = DefaultConfig) =>
        \A qq1, qq2 \in Senders :
            (/\ IdLess(qq1, qq2)
             /\ NeverWithinWindow(qq1, qq2)
             /\ AboveThreshold(SimilarityOf(qq1, qq2))
             /\ 300 * SimilarityOf(qq1, qq2) >= MinEdgeWeightMilli * SimScale)
                => HasEdgeOfWeight(qq1, qq2, 300 * SimilarityOf(qq1, qq2))

\* three distinct users post in rotation one minute apart, each at least
\* once, every message after the first mentioning the sender before it
RotationWithMentions ==
    /\ Len(messages) >= 3
    /\ Cardinality({messages[k].qq : k \in 1..3}) = 3
    /\ \A k \in 4..Len(messages) : messages[k].qq = messages[k - 3].qq
    /\ \A k \in 2..Len(messages) :
           /\ messages[k].time = messages[k - 1].time + 1
           /\ messages[k - 1].qq \in messages[k].mentions

\* C5: with the default configuration, three users posting in rotation with
\* 1-minute gaps, each message mentioning the previous sender, give a
\* triangle: exactly 3 nodes and exactly the 3 edges A-B, B-C and A-C.
C5_RotationGivesTriangle ==
    (last_op = "analyze" /\ cfg = DefaultConfig /\ RotationWithMentions) =>
        /\ stats.total_nodes = 3
        /\ Len(stats.nodes) = 3
        /\ stats.total_edges = 3
        /\ Len(stats.edges) = 3
        /\ \A qq1, qq2 \in Senders : qq1 # qq2 => HasEdge(qq1, qq2)

NodeIdSet == {stats.nodes[i].id : i \in 1..Len(stats.nodes)}

\* C6: after analyze() both ends of every edge are ids of nodes, and the
\* node and edge counts are at most max_nodes_for_viz and max_edges_for_viz.
C6_GraphWellFormedAndBounded ==
    last_op = "analyze" =>
        /\ \A i \in 1..Len(stats.edges) :
               stats.edges[i].from \in NodeIdSet /\ stats.edges[i].to \in NodeIdSet
        /\ stats.total_nodes <= cfg.max_nodes_for_viz
        /\ Len(stats.nodes) <= cfg.max_nodes_for_viz
        /\ stats.total_edges <= cfg.max_edges_for_viz
        /\ Len(stats.edges) <= cfg.max_edges_for_viz

\* an analysis where the node cap removed a node and the edges just fit the
\* edge cap
C6_CapsBite ==
    /\ last_op = "analyze"
    /\ stats.edges # <<>>
    /\ stats.original_nodes_count > stats.total_nodes
    /\ stats.total_nodes = cfg.max_nodes_for_viz
    /\ stats.total_edges = cfg.max_edges_for_viz

\* C8: analyze() called twice in a row on the same loaded list, label
\* propagation making the same random choices in both runs, returns
\* identical stats: the second call changes no field.
C8_AnalyzeIdempotent ==
    [][(last_op = "analyze" /\ last_op' = "analyze" /\ lpa_labels' = lpa_labels)
           => stats' = stats]_vars

\* a second analyze() in a row on a list that gives communities
C8_AnalyzedTwice ==
    /\ last_op = "analyze"
    /\ runs = 2
    /\ stats.communities # <<>>
    /\ stats.total_edges >= 2

\* C9: every community has at least 2 members, every member is the id of a
\* node in stats.nodes, and no id appears in two communities or twice in one.
C9_CommunitiesPartitionNodes ==
    \A i \in 1..Len(stats.communities) :
        LET members == stats.communities[i]
        IN  /\ Len(members) >= 2
            /\ \A k \in 1..Len(members) : members[k] \in NodeIdSet
            /\ \A k, l \in 1..Len(members) : k # l => members[k] # members[l]
            /\ \A j \in 1..Len(stats.communities) :
                   j # i => SeqToSet(members) \cap SeqToSet(stats.communities[j]) = {}

\* the sum of the weights of the edges of stats.edges at node
RECURSIVE IncidentWeight(_, _)
IncidentWeight(edges, node) ==
    IF edges = <<>> THEN 0
    ELSE (IF node \in {Head(edges).from, Head(edges).to} THEN Head(edges).value ELSE 0)
             + IncidentWeight(Tail(edges), node)

\* C10: after analyze() every degree centrality lies in [0, 1], and when the
\* pruned graph has an edge the node of maximum weighted degree has degree
\* centrality exactly 1.
C10_DegreeCentralityNormalised ==
    last_op = "analyze" =>
        /\ \A i \in 1..Len(stats.degree_centrality) :
               /\ ~FLess(stats.degree_centrality[i].v, Zero)
               /\ ~FLess(One, stats.degree_centrality[i].v)
        /\ stats.edges # <<>> =>
               \A node \in NodeIdSet :
                   (\A other \in NodeIdSet :
                        IncidentWeight(stats.edges, other)
                            <= IncidentWeight(stats.edges, node))
                       => MapGet(stats.degree_centrality, node, Zero) = One

\* an analysis with nodes of different weighted degree
C10_UnequalDegrees ==
    /\ last_op = "analyze"
    /\ stats.total_edges >= 2
    /\ \E i, j \in 1..Len(stats.degree_centrality) :
           /\ FLess(stats.degree_centrality[i].v, stats.degree_centrality[j].v)
           /\ FLess(Zero, stats.degree_centrality[i].v)
           /\ stats.degree_centrality[i].v # Frac(1, 2)

(***************************************************************************)
(* Properties of the similarity paths.                                     *)
(***************************************************************************)
BothPathsRun == {"sequential", "parallel"} \subseteq sim_done

\* C2: for every user-contents map and pair list the parallel similarity
\* path returns exactly the map of the sequential path: the same keys in the
\* same sorted orientation, with the same values.
C2_ParallelEqualsSequential == BothPathsRun => parallel = sequential

\* every key is a pair of two distinct ids in ascending order, and no
\* unordered pair has two entries
CanonicalKeys(map) ==
    /\ \A i \in 1..Len(map) : IdLess(map[i].k[1], map[i].k[2])
    /\ \A i, j \in 1..Len(map) :
           i # j => {map[i].k[1], map[i].k[2]} # {map[j].k[1], map[j].k[2]}

\* C3: in the conversation map, the similarity map of either path and the
\* aggregated interaction-weight map every key is a pair (a, b) of distinct
\* sender ids with a < b, so no unordered pair has two entries.
C3_CanonicalPairKeys ==
    BothPathsRun =>
        /\ CanonicalKeys(extract_conversations(messages))
        /\ CanonicalKeys(sequential)
        /\ CanonicalKeys(parallel)
        /\ CanonicalKeys(calculate_interaction_weights(
                             extract_conversations(messages), sequential))
        /\ CanonicalKeys(calculate_interaction_weights(
                             extract_conversations(messages), parallel))

C11_BetweennessWithinUnit ==
    last_op = "analyze" =>
        \A id \in NodeIdSet :
            LET b == MapGet(stats.betweenness_centrality, id, One)
            IN  /\ id \in MapKeys(stats.betweenness_centrality)
                /\ ~FLess(b, Zero)
                /\ ~FLess(One, b)
                /\ stats.total_nodes <= 2 => b = Zero

\* an analysis of three nodes, one of them on every shortest path between
\* the other two
C11_NodeBetweenTwoOthers ==
    /\ last_op = "analyze"
    /\ messages # <<>>
    /\ stats.total_nodes = 3
    /\ \E id \in NodeIdSet : MapGet(stats.betweenness_centrality, id, Zero) = One

\* C12: after analyze() on a pruned graph of n > 1 nodes, network_density is
\* total_edges / (n * (n - 1) / 2), it lies in [0, 1], and it is 1 exactly
\* when every two distinct nodes are joined by an edge.
C12_DensityOfPrunedGraph ==
    last_op = "analyze" /\ stats.total_nodes > 1 =>
        LET n == stats.total_nodes
        IN  /\ stats.network_density.n * (n * (n - 1))
                   = 2 * stats.total_edges * stats.network_density.d
            /\ ~FLess(stats.network_density, Zero)
            /\ ~FLess(One, stats.network_density)
            /\ stats.network_density = One
                   <=> \A id1, id2 \in NodeIdSet : id1 # id2 => HasEdge(id1, id2)

\* an analysis that leaves a complete graph, and one node cut off by the
\* node cap
C12_CompleteAfterPruning ==
    /\ last_op = "analyze"
    /\ messages # <<>>
    /\ stats.total_nodes = 2
    /\ stats.original_nodes_count = 3
    /\ stats.network_density = One

\* steps 1 to 3 of _build_interaction_graph on the loaded messages: the
\* aggregated weight map handed to _construct_network_graph
InteractionWeights ==
    calculate_interaction_weights(
        extract_conversations(messages),
        analyze_content_similarity(messages, cfg.enable_parallel, FALSE))

\* C13: after analyze() total_nodes <= original_nodes_count and
\* total_edges <= original_edges_count, and after an analysis of messages the
\* original counts are the numbers of senders and of pairs in the aggregated
\* weight map.
C13_PruningOnlyRemoves ==
    last_op = "analyze" =>
        /\ stats.total_nodes <= stats.original_nodes_count
        /\ stats.total_edges <= stats.original_edges_count
        /\ messages # <<>> =>
               /\ stats.original_nodes_count = Cardinality(Endpoints(InteractionWeights))
               /\ stats.original_edges_count = Len(InteractionWeights)

\* an analysis in which the caps removed a node and an edge
C13_NodeAndEdgeRemoved ==
    /\ last_op = "analyze"
    /\ messages # <<>>
    /\ 0 < stats.total_nodes
    /\ stats.total_nodes < stats.original_nodes_count
    /\ 0 < stats.total_edges
    /\ stats.total_edges < stats.original_edges_count

\* the pairs of a weight map with their weights
Weighted(map) == {<<{map[i].k[1], map[i].k[2]}, map[i].v>> : i \in 1..Len(map)}

\* the pairs of the surviving edges with their weights
SurvivingEdges ==
    {<<{stats.edges[i].from, stats.edges[i].to}, stats.edges[i].value>> :
        i \in 1..Len(stats.edges)}

\* C14: when analyze() builds a graph whose original node and edge counts
\* are within max_nodes_for_viz and max_edges_for_viz, the surviving edges
\* are exactly the aggregated pairs of weight >= min_edge_weight with their
\* aggregated weights, and the nodes are exactly the endpoints of those edges.
C14_PruningWithinCapsIsFloorOnly ==
    /\ last_op = "analyze"
    /\ messages # <<>>
    /\ stats.original_nodes_count <= cfg.max_nodes_for_viz
    /\ stats.original_edges_count <= cfg.max_edges_for_viz
    => LET kept == {e \in Weighted(InteractionWeights) :
                       e[2] >= MinEdgeWeightMilli * (WeightUnit \div 1000)}
       IN  /\ SurvivingEdges = kept
           /\ Len(stats.edges) = Cardinality(kept)
           /\ NodeIdSet = UNION {e[1] : e \in kept}

\* an analysis under caps of 2 nodes or edges that the aggregated map just
\* fits into
C14_CapsJustFit ==
    /\ last_op = "analyze"
    /\ messages # <<>>
    /\ stats.original_nodes_count <= cfg.max_nodes_for_viz
    /\ stats.original_edges_count = cfg.max_edges_for_viz
    /\ stats.total_edges = 2

\* C15: on an analyzer that has loaded at most one list, analyze() of an
\* empty list returns the stats of NetworkStats(), all counts zero, all lists
\* and maps empty and the three metrics 0; and when at most one node survives
\* pruning, density, average clustering and average path length are 0 and so
\* is every betweenness and closeness value.
C15_DegenerateInputGivesZeros ==
    last_op = "analyze" /\ loads <= 1 =>
        /\ messages = <<>> => stats = EmptyStats
        /\ stats.total_nodes <= 1 =>
               /\ stats.network_density = Zero
               /\ stats.average_clustering = Zero
               /\ stats.average_path_length = Zero
               /\ MapKeys(stats.betweenness_centrality) = NodeIdSet
               /\ MapKeys(stats.closeness_centrality) = NodeIdSet
               /\ \A i \in 1..Len(stats.betweenness_centrality) :
                      stats.betweenness_centrality[i].v = Zero
               /\ \A i \in 1..Len(stats.closeness_centrality) :
                      stats.closeness_centrality[i].v = Zero

\* a first analysis after which the node cap leaves one node, without edges
C15_OneNodeSurvives ==
    /\ last_op = "analyze"
    /\ loads = 1
    /\ stats.total_nodes = 1
    /\ stats.original_nodes_count > 1
    /\ Len(stats.closeness_centrality) = 1

(***************************************************************************)
(* Properties of conversation extraction, scoring and weight aggregation.  *)
(***************************************************************************)
\* the loaded messages whose time string is neither empty nor malformed
WithParsedTime == SelectSeq(messages, LAMBDA m : m.time \notin {0, Malformed})

\* C16: a message whose time string cannot be parsed adds no score to the
\* conversation map, neither as the scanning message nor as a candidate: the
\* map _extract_conversations returns is the one it returns for the loaded
\* list without those messages.
C16_UnparsedTimeAddsNothing ==
    scan.op = "extract" =>
        scan.conversations = extract_conversations(WithParsedTime)

\* an extraction that scored a pair although a text message with an empty or
\* malformed time string lies between two messages of parsed times
C16_UnparsedBetweenPartners ==
    /\ scan.op = "extract"
    /\ scan.conversations # <<>>
    /\ \E i, k, j \in DOMAIN messages :
           /\ i < k
           /\ k < j
           /\ IsCandidatePair(messages[i], messages[j])
           /\ messages[k].time \in {0, Malformed}
           /\ ~messages[k].is_system
           /\ ~messages[k].is_recalled
    /\ \E k \in DOMAIN messages : messages[k].time = Malformed

\* the pairs <<i, j>> of a scanning message and a valid candidate among the
\* MaxLookahead messages after it
CandidatePairs ==
    {p \in (DOMAIN messages) \X (DOMAIN messages) :
        /\ p[1] < p[2]
        /\ p[2] <= p[1] + MaxLookahead
        /\ IsCandidatePair(messages[p[1]], messages[p[2]])}

\* the minutes from msg1 to msg2
TimeFrom(msg1, msg2) == parse_timestamp(msg2.time) - parse_timestamp(msg1.time)

RECURSIVE ScoreSum(_)
ScoreSum(pairs) ==
    IF pairs = {} THEN 0
    ELSE LET p == CHOOSE p \in pairs : TRUE
         IN  calculate_conversation_score(
                 messages[p[1]], messages[p[2]],
                 TimeFrom(messages[p[1]], messages[p[2]]))
             + ScoreSum(pairs \ {p})

\* C17: in the order load_messages produces, the score of a scanning message
\* and a valid candidate among the 50 messages after it is added to the
\* weight of their pair exactly when the time from the one to the other is
\* within the conversation window: the weight of every pair of senders is
\* the sum of the scores of its candidate pairs within the window.
C17_ScoredIffWithinWindow ==
    scan.op = "extract" =>
        \A qq1, qq2 \in Users :
            MapGet(scan.conversations, <<qq1, qq2>>, 0)
                = ScoreSum({p \in CandidatePairs :
                               /\ SortedPair(messages[p[1]].qq, messages[p[2]].qq)
                                      = <<qq1, qq2>>
                               /\ TimeFrom(messages[p[1]], messages[p[2]])
                                      <= ConversationWindow})

\* min(1.0, T + M + R + L + 0.1) in hundredths, as C19 states its terms
ClaimedScore(msg1, msg2, dt) ==
    LET T == IF dt <= 5 THEN 60
             ELSE IF dt <= 15 THEN 40
             ELSE IF dt <= 30 THEN 20
             ELSE 10
        M == IF msg2.qq \in msg1.mentions \/ msg1.qq \in msg2.mentions THEN 55
             ELSE IF \/ LegacyMention(msg1.content, msg2.qq)
                     \/ LegacyMention(msg2.content, msg1.qq)
                  THEN 35
                  ELSE 0
        R == IF msg1.reply_to_qq = msg2.qq \/ msg2.reply_to_qq = msg1.qq THEN 60 ELSE 0
        tokens1 == CleanWords(msg1.content)
        tokens2 == CleanWords(msg2.content)
        L == IF /\ tokens1 \cup tokens2 # {}
                /\ 5 * Cardinality(tokens1 \cap tokens2)
                       > Cardinality(tokens1 \cup tokens2)
             THEN 20
             ELSE 0
    IN  Min(100, T + M + R + L + 10)

\* C19: the score of a candidate pair at a gap within the window is
\* min(1.0, T + M + R + L + 0.1) with the time, mention, reply and overlap
\* terms of ClaimedScore; it lies in [0, 1] and is the same with the two
\* messages exchanged.
C19_ScoreIsCappedSum ==
    scan.op = "score" =>
        /\ scan.score = ClaimedScore(messages[scan.pair[1]], messages[scan.pair[2]],
                                     scan.dt)
        /\ scan.score >= 0
        /\ scan.score <= 100
        /\ scan.swapped = scan.score

\* a pair scored beyond 15 minutes with a reply and a mention, whose terms
\* sum to more than 1.0
C19_TermsExceedOne ==
    /\ scan.op = "score"
    /\ scan.dt > 15
    /\ messages[scan.pair[2]].reply_to_qq = messages[scan.pair[1]].qq
    /\ messages[scan.pair[2]].qq \in messages[scan.pair[1]].mentions
    /\ scan.score = 100

\* C20: for the conversation and similarity maps handed to
\* _calculate_interaction_weights, the aggregated map contains a pair exactly
\* when 0.7 * conversation + 0.3 * similarity >= min_interactions, a term
\* missing from its map counting as 0, and holds that value for the pair.
C20_WeightIsCombinedValue ==
    scan.op = "combine" =>
        /\ Cardinality(MapKeys(scan.weights)) = Len(scan.weights)
        /\ \A pair \in Users \X Users :
               LET conv == MapGet(scan.conversations, pair, 0)
                   sim == MapGet(scan.similarities, pair, 0)
                   \* 1000 * SimScale * (0.7 * conv / 100 + 0.3 * sim / SimScale)
                   combined == 7 * SimScale * conv + 300 * sim
               IN  /\ pair \in MapKeys(scan.weights)
                          <=> combined >= MinInteractions * 1000 * SimScale
                   /\ pair \in MapKeys(scan.weights) =>
                          MapGet(scan.weights, pair, 0)
                              = combined * (WeightUnit \div (1000 * SimScale))

\* an aggregation in which a pair with a conversation score and a similarity
\* is contained
C20_PairWithBothTerms ==
    /\ scan.op = "combine"
    /\ \E pair \in MapKeys(scan.weights) :
           /\ MapGet(scan.conversations, pair, 0) > 0
           /\ MapGet(scan.similarities, pair, 0) > 0

(***************************************************************************)
(* Properties of the label-propagation loop.                               *)
(***************************************************************************)
\* C18: within one iteration of label propagation every node's new label is
\* chosen from the labels its neighbours had at the start of that iteration:
\* the label of a node already visited in the running pass is one of the
\* best labels under the labelling the pass started from.
C18_LabelsChosenFromIterationStart ==
    lpa.phase = "pass" =>
        \A node \in SeqToSet(NodeIds(stats)) \ lpa.todo :
            Adj(stats.edges, node) # {} =>
                lpa.labels[node] \in BestLabels(stats.edges, lpa.start, node)

(***************************************************************************)
(* Properties of the similarity map.                                       *)
(***************************************************************************)
\* the loaded messages of qq that count for similarity
Qualifying(qq) ==
    {k \in DOMAIN messages :
        /\ messages[k].qq = qq
        /\ ~messages[k].is_system
        /\ ~messages[k].is_recalled
        /\ ContentLen(messages[k].content) > 2}

TokensOf(qq) == UNION {tokenize(messages[k].content) : k \in Qualifying(qq)}

\* C21: the similarity map contains an unordered pair of senders exactly
\* when each posted at least 2 qualifying messages and the Jaccard similarity
\* of their token sets is not below similarity_threshold (a similarity equal
\* to the threshold is kept), and it stores the Jaccard value for the pair.
C21_KeptFromThresholdOn ==
    scan.op = "combine" =>
        \A qq1, qq2 \in Users :
            IdLess(qq1, qq2) =>
                LET keys == MapKeys(scan.similarities) \cap {<<qq1, qq2>>, <<qq2, qq1>>}
                    common == Cardinality(TokensOf(qq1) \cap TokensOf(qq2))
                    all == Cardinality(TokensOf(qq1) \cup TokensOf(qq2))
                IN  /\ keys # {}
                       <=> /\ Cardinality(Qualifying(qq1)) >= 2
                           /\ Cardinality(Qualifying(qq2)) >= 2
                           /\ all > 0
                           /\ 100 * common >= SimilarityThresholdPct * all
                    /\ \A key \in keys :
                           MapGet(scan.similarities, key, 0) * all = common * SimScale

(***************************************************************************)
(* Properties of the measures of the pruned graph.                         *)
(***************************************************************************)
\* the nodes of stats.nodes without an edge of stats.edges
EdgelessNodes ==
    {node \in NodeIdSet :
        \A i \in 1..Len(stats.edges) : node \notin {stats.edges[i].from, stats.edges[i].to}}

\* C22: after the centrality computation of a first analysis the
\* degree-centrality map has an entry for every surviving node, and the entry
\* of a node without incident surviving edge is 0.
C22_DegreeEntryForEveryNode ==
    last_op = "analyze" /\ loads <= 1 /\ runs <= 1 =>
        /\ NodeIdSet \subseteq MapKeys(stats.degree_centrality)
        /\ \A node \in EdgelessNodes :
               MapGet(stats.degree_centrality, node, One) = Zero

\* the nodes joined to v by an edge of stats.edges
Neighbours(v) ==
    {u \in NodeIdSet :
        \E i \in 1..Len(stats.edges) :
            {stats.edges[i].from, stats.edges[i].to} = {u, v}}

\* the number of walks of k edges from s to t
RECURSIVE Walks(_, _, _)
Walks(s, t, k) ==
    IF k = 0 THEN (IF s = t THEN 1 ELSE 0)
    ELSE LET RECURSIVE Through(_)
             Through(us) ==
                 IF us = {} THEN 0
                 ELSE LET u == CHOOSE u \in us : TRUE
                      IN  Walks(s, u, k - 1) + Through(us \ {u})
         IN  Through(Neighbours(t))

Reachable(s, t) == \E k \in 0..(Len(stats.nodes) - 1) : Walks(s, t, k) > 0

\* the number of edges of a shortest path from s to t, for t reachable from s
HopDistance(s, t) ==
    CHOOSE k \in 0..(Len(stats.nodes) - 1) :
        /\ Walks(s, t, k) > 0
        /\ \A j \in 0..(k - 1) : Walks(s, t, j) = 0

\* the number of shortest paths from s to t
ShortestPaths(s, t) == Walks(s, t, HopDistance(s, t))

\* the number of shortest paths from s to t that pass through v
ShortestPathsThrough(s, t, v) ==
    IF /\ Reachable(s, v)
       /\ Reachable(v, t)
       /\ HopDistance(s, v) + HopDistance(v, t) = HopDistance(s, t)
    THEN ShortestPaths(s, v) * ShortestPaths(v, t)
    ELSE 0

\* the sum over the ordered pairs of the shares of shortest paths through v
RECURSIVE PairShares(_, _)
PairShares(v, pairs) ==
    IF pairs = {} THEN Zero
    ELSE LET p == CHOOSE p \in pairs : TRUE
         IN  FAdd(Frac(ShortestPathsThrough(p[1], p[2], v), ShortestPaths(p[1], p[2])),
                  PairShares(v, pairs \ {p}))

ReferenceBetweenness(v) ==
    LET n == Len(stats.nodes)
        pairs == {p \in (NodeIdSet \ {v}) \X (NodeIdSet \ {v}) :
                     p[1] # p[2] /\ Reachable(p[1], p[2])}
        total == PairShares(v, pairs)
    IN  IF n > 2 THEN FMul(total, Frac(1, (n - 1) * (n - 2))) ELSE total

\* C23: the betweenness of a node v is the sum, over the ordered pairs (s, t)
\* of distinct nodes other than v with t reachable from s, of the share of
\* the shortest s-t paths (by number of edges) that pass through v, divided
\* by (n-1)(n-2) when n > 2; the weights of the edges have no influence.
C23_BetweennessIsShareOfShortestPaths ==
    scan.op = "centrality" =>
        \A v \in NodeIdSet :
            /\ v \in MapKeys(stats.betweenness_centrality)
            /\ MapGet(stats.betweenness_centrality, v, Zero) = ReferenceBetweenness(v)

\* a measured graph of unequal weights in which two nodes are joined by two
\* shortest paths, each through a node that carries half of them
C23_TwoShortestPaths ==
    /\ scan.op = "centrality"
    /\ \E i, j \in 1..Len(stats.edges) : stats.edges[i].value # stats.edges[j].value
    /\ \E s, t, v \in NodeIdSet :
           /\ Reachable(s, t)
           /\ ShortestPaths(s, t) = 2
           /\ ShortestPathsThrough(s, t, v) = 1
           /\ FLess(Zero, MapGet(stats.betweenness_centrality, v, Zero))
           /\ FLess(MapGet(stats.betweenness_centrality, v, Zero), One)

(***************************************************************************)
(* Properties of the two caps of _construct_network_graph.                 *)
(***************************************************************************)
\* the entries of the weight map that pass the floor of 0.2
FlooredEntries ==
    {i \in DOMAIN scan.weights :
        scan.weights[i].v >= MinEdgeWeightMilli * (WeightUnit \div 1000)}

FlooredUsers == UNION {{scan.weights[i].k[1], scan.weights[i].k[2]} : i \in FlooredEntries}

\* the number of post-floor edges at u, whatever their weights
FlooredDegree(u) ==
    Cardinality({i \in FlooredEntries : u \in {scan.weights[i].k[1], scan.weights[i].k[2]}})

\* stats.edges as a set
ReportedEdges ==
    {<<stats.edges[i].from, stats.edges[i].to, stats.edges[i].value>> :
        i \in 1..Len(stats.edges)}

\* no choice of max_nodes_for_viz nodes has more than max_edges_for_viz
\* post-floor edges, so the edge cap leaves the result of the node cap alone
EdgeCapIdle ==
    \/ Cardinality(FlooredEntries) <= cfg.max_edges_for_viz
    \/ cfg.max_nodes_for_viz * (cfg.max_nodes_for_viz - 1) <= 2 * cfg.max_edges_for_viz

\* C24: when more than max_nodes_for_viz nodes remain after the floor, the
\* node cap keeps exactly max_nodes_for_viz of them, none with fewer incident
\* post-floor edges than a dropped node, and an edge survives the step
\* exactly when both its endpoints are kept.
C24_NodeCapKeepsHighestDegrees ==
    /\ scan.op = "graph"
    /\ Cardinality(FlooredUsers) > cfg.max_nodes_for_viz
    /\ EdgeCapIdle
    => /\ stats.total_nodes = cfg.max_nodes_for_viz
       /\ Cardinality(NodeIdSet) = cfg.max_nodes_for_viz
       /\ NodeIdSet \subseteq FlooredUsers
       /\ \A kept \in NodeIdSet :
              \A dropped \in FlooredUsers \ NodeIdSet :
                  FlooredDegree(kept) >= FlooredDegree(dropped)
       /\ Len(stats.edges) = Cardinality(ReportedEdges)
       /\ ReportedEdges =
              {<<scan.weights[i].k[1], scan.weights[i].k[2], scan.weights[i].v>> :
                  i \in {j \in FlooredEntries :
                             {scan.weights[j].k[1], scan.weights[j].k[2]} \subseteq NodeIdSet}}

\* a node cap that drops two nodes of fewer edges than every kept node, and
\* with them some edges but not all
C24_LowDegreeNodesDropped ==
    /\ scan.op = "graph"
    /\ Cardinality(FlooredUsers) = cfg.max_nodes_for_viz + 2
    /\ EdgeCapIdle
    /\ \A kept \in NodeIdSet :
           \A dropped \in FlooredUsers \ NodeIdSet :
               FlooredDegree(kept) > FlooredDegree(dropped)
    /\ stats.total_edges > 1
    /\ stats.total_edges < Cardinality(FlooredEntries)

\* the node sets the node cap may keep: all post-floor users if they are no
\* more than max_nodes_for_viz, else max_nodes_for_viz of them, none of
\* fewer post-floor edges than a dropped one
NodeCapChoices ==
    IF Cardinality(FlooredUsers) <= cfg.max_nodes_for_viz THEN {FlooredUsers}
    ELSE {K \in SUBSET FlooredUsers :
             /\ Cardinality(K) = cfg.max_nodes_for_viz
             /\ \A kept \in K :
                    \A dropped \in FlooredUsers \ K :
                        FlooredDegree(kept) >= FlooredDegree(dropped)}

\* the post-floor entries with both endpoints in K
EntriesWithin(K) ==
    {i \in FlooredEntries : {scan.weights[i].k[1], scan.weights[i].k[2]} \subseteq K}

EntryEdges(entries) ==
    {<<scan.weights[i].k[1], scan.weights[i].k[2], scan.weights[i].v>> : i \in entries}

\* C25: when more than max_edges_for_viz edges remain after the node cap,
\* the edge cap keeps exactly max_edges_for_viz of them, none of lower weight
\* than a dropped one, and the node set becomes exactly the endpoints of the
\* kept edges; otherwise the edges and nodes of the node cap are reported.
C25_EdgeCapKeepsHeaviest ==
    scan.op = "graph" =>
        \E K \in NodeCapChoices :
            LET remaining == EntryEdges(EntriesWithin(K))
            IN  /\ Len(stats.edges) = Cardinality(ReportedEdges)
                /\ IF Cardinality(EntriesWithin(K)) > cfg.max_edges_for_viz
                   THEN /\ stats.total_edges = cfg.max_edges_for_viz
                        /\ Cardinality(ReportedEdges) = cfg.max_edges_for_viz
                        /\ ReportedEdges \subseteq remaining
                        /\ \A kept \in ReportedEdges :
                               \A dropped \in remaining \ ReportedEdges :
                                   kept[3] >= dropped[3]
                        /\ NodeIdSet = UNION {{e[1], e[2]} : e \in ReportedEdges}
                   ELSE /\ ReportedEdges = remaining
                        /\ NodeIdSet = K

\* an edge cap that drops edges lighter than every kept edge, and with them
\* a node that the node cap had left
C25_LightEdgesAndNodeDropped ==
    /\ scan.op = "graph"
    /\ Cardinality(FlooredUsers) <= cfg.max_nodes_for_viz
    /\ Cardinality(FlooredEntries) > cfg.max_edges_for_viz + 1
    /\ stats.total_edges = cfg.max_edges_for_viz
    /\ stats.total_edges > 1
    /\ \A kept \in ReportedEdges :
           \A dropped \in EntryEdges(FlooredEntries) \ ReportedEdges :
               kept[3] > dropped[3]
    /\ NodeIdSet # FlooredUsers

(***************************************************************************)
(* Properties of label propagation.                                        *)
(***************************************************************************)
\* C26: label propagation always terminates: whatever the shuffles and the
\* choices among tied labels, it makes at most 100 passes, a pass in which
\* no node changed its label is the last one, and a loop that was entered is
\* left.
C26_PropagationTerminates ==
    /\ [](lpa.iteration <= MaxIterations)
    /\ [][lpa.phase = "pass" /\ lpa.todo = {} /\ ~lpa.changed => lpa'.phase = "done"]_vars
    /\ (lpa.phase = "pass") ~> (lpa.phase = "done")

\* the loop left after its last iteration, in which a label still changed
C26_EndedByLastIteration ==
    /\ lpa.phase = "done"
    /\ lpa.iteration = MaxIterations
    /\ lpa.changed

(***************************************************************************)
(* Properties of the reported graph.                                       *)
(***************************************************************************)
\* C27: after a first analyze() every node of stats.nodes is an endpoint of
\* at least one edge of stats.edges, whichever pruning steps applied: no
\* node without an edge is reported.
C27_EveryNodeHasAnEdge ==
    last_op = "analyze" /\ loads <= 1 /\ runs <= 1 => EdgelessNodes = {}

(***************************************************************************)
(* Properties of the gaps of scored messages.                              *)
(***************************************************************************)
\* C28: every two messages whose score is added lie, in the loaded order, at
\* a gap (later-positioned minus earlier-positioned) of at least 0 and at
\* most the conversation window; two messages at a negative gap are never
\* scored.  Every score being positive, the weight of a pair of senders is
\* then at most the sum of the scores of its candidate pairs at such gaps.
C28_ScoredGapWithinWindow ==
    scan.op = "extract" =>
        \A qq1, qq2 \in Users :
            MapGet(scan.conversations, <<qq1, qq2>>, 0)
                <= ScoreSum({p \in CandidatePairs :
                                /\ SortedPair(messages[p[1]].qq, messages[p[2]].qq)
                                       = <<qq1, qq2>>
                                /\ TimeFrom(messages[p[1]], messages[p[2]]) >= 0
                                /\ TimeFrom(messages[p[1]], messages[p[2]])
                                       <= ConversationWindow})

(***************************************************************************)
(* Properties of the interaction matrix.                                   *)
(***************************************************************************)
\* C29: the interaction matrix has exactly one entry per surviving edge:
\* whatever the sender ids, ids with '_' included, distinct surviving pairs
\* have distinct keys pair[0] + '_' + pair[1], so the matrix has total_edges
\* entries and the entry of each edge is the weight of that edge.
C29_OneMatrixEntryPerEdge ==
    scan.op = "graph" =>
        /\ Len(stats.interaction_matrix) = stats.total_edges
        /\ \A i, j \in 1..Len(stats.edges) :
               i # j => stats.edges[i].from \o "_" \o stats.edges[i].to
                            # stats.edges[j].from \o "_" \o stats.edges[j].to
        /\ \A i \in 1..Len(stats.edges) :
               MapGet(stats.interaction_matrix,
                      stats.edges[i].from \o "_" \o stats.edges[i].to, 0)
                   = stats.edges[i].value

(***************************************************************************)
(* Properties of the labels of label propagation.                          *)
(***************************************************************************)
\* C30: at every step of label propagation the label of each node is the
\* initial label (the position in stats.nodes, from 0) of a node of the same
\* connected component, so nodes of different components are never put in
\* the same community.
C30_LabelsStayInComponent ==
    /\ lpa.phase \in {"pass", "done"} =>
           \A node \in NodeIdSet :
               \E i \in 1..Len(stats.nodes) :
                   /\ Reachable(node, stats.nodes[i].id)
                   /\ lpa.labels[node] = i - 1
    /\ lpa.phase = "done" =>
           \A c \in 1..Len(stats.communities) :
               \A i, j \in 1..Len(stats.communities[c]) :
                   Reachable(stats.communities[c][i], stats.communities[c][j])

\* label propagation ended on a graph of two components with two
\* communities, after a pass in which a label changed
C30_TwoComponentsTwoCommunities ==
    /\ lpa.phase = "done"
    /\ lpa.iteration > 1
    /\ \E u, v \in NodeIdSet : ~Reachable(u, v)
    /\ Len(stats.communities) = 2
    /\ \E node \in NodeIdSet :
           lpa.labels[node] # (CHOOSE i \in 1..Len(stats.nodes) : stats.nodes[i].id = node) - 1
====
